---------------------------- MODULE Spec2Model ----------------------------
(***************************************************************************)
(* Model of the bill field-extraction core of ledgerx-api:                 *)
(*   utils/bill_parser_v2.py  (parse_money, parse_date, extract_fields)    *)
(*   utils/table_parser.py    (parse_date_safe, extract_after_header)      *)
(*                                                                         *)
(* A text is a sequence of lines, a line a sequence of tokens separated by *)
(* white space.  A money token is a sequence of characters (one-character  *)
(* strings; "PESO" names U+20B1 and "FWLP"/"FWRP" the full-width           *)
(* parentheses U+FF08/U+FF09), so the regular expressions of the source    *)
(* are matched character by character.  A date token is a record giving    *)
(* its literal layout, the spelling of its month word and its numbers.     *)
(***************************************************************************)
EXTENDS Integers, Sequences, FiniteSets, TLC

VARIABLES
    text,       \* extract_fields: the argument, a sequence of lines
    pc,         \* extract_fields: position in the cascade
    consulted,  \* extract_fields: strategies whose grammar was tried, in order
    result,     \* extract_fields: what the call gave its caller
    mtok,       \* parse_money: the argument s
    mpc,        \* parse_money: "call" before, "done" after the call
    mout,       \* parse_money: the value returned (or the exception raised)
    frames,     \* interleaved calls of extract_fields: the module's globals,
                \* and of every call its argument, position, locals and result
    dueamt,     \* extract_due_and_amount: the lines, the position, the result
    tm,         \* TaskManager: _tasks, _lock, the scheduled runners, the callers
    fetch,      \* the fetch job: the bills table and the process_single_bill tasks
    rt,         \* retry(): the wrapped function's outcomes and the wrapper's run
    tracker,    \* ProgressTracker: _tasks and the last call
    api         \* the bills router: the bills table, the clock, the last outcome

parserVars == <<text, pc, consulted, result, mtok, mpc, mout, frames>>

serviceVars == <<dueamt, tm, fetch, rt, tracker, api>>

vars == <<parserVars, serviceVars>>

---------------------------------------------------------------------------
(* Python values *)

None == [t |-> "none"]
Str(s) == [t |-> "str", s |-> s]
\* a Decimal of two places: cents is its coefficient, the value in hundredths
Dec(c) == [t |-> "decimal", cents |-> c, places |-> 2]
PyInt(n) == [t |-> "int", v |-> n]
Date(y, m, d) == [t |-> "date", y |-> y, m |-> m, d |-> d]
Raise(e) == [t |-> "raise", exc |-> e]

\* Body(v) with v evaluated once (a local variable of the source)
With(v, Body(_)) == CHOOSE r \in {Body(x) : x \in {v}} : TRUE

---------------------------------------------------------------------------
(* Characters *)

Digits == {"0", "1", "2", "3", "4", "5", "6", "7", "8", "9"}

DigitVal(c) ==
    CASE c = "0" -> 0 [] c = "1" -> 1 [] c = "2" -> 2 [] c = "3" -> 3
      [] c = "4" -> 4 [] c = "5" -> 5 [] c = "6" -> 6 [] c = "7" -> 7
      [] c = "8" -> 8 [] c = "9" -> 9

IsDigit(c) == c \in Digits
IsSpace(c) == c = " "

\* unicodedata.normalize("NFKC", s), on the characters of the model
NFKCChar(c) ==
    CASE c = "FWLP" -> "("
      [] c = "FWRP" -> ")"
      [] OTHER -> c

NFKC(s) == [i \in 1..Len(s) |-> NFKCChar(s[i])]

\* end (exclusive) of the maximal run of white space starting at i
RECURSIVE SkipSpaces(_, _)
SkipSpaces(s, i) ==
    IF i <= Len(s) /\ IsSpace(s[i]) THEN SkipSpaces(s, i + 1) ELSE i

RECURSIVE LastNonSpace(_, _)
LastNonSpace(s, j) ==
    IF j >= 1 /\ IsSpace(s[j]) THEN LastNonSpace(s, j - 1) ELSE j

\* str.strip()
Strip(s) ==
    LET i == SkipSpaces(s, 1)
        j == LastNonSpace(s, Len(s))
    IN  IF i > j THEN <<>> ELSE SubSeq(s, i, j)

\* end (exclusive) of the maximal run of digits starting at i
RECURSIVE DigitRunEnd(_, _)
DigitRunEnd(s, i) ==
    IF i <= Len(s) /\ IsDigit(s[i]) THEN DigitRunEnd(s, i + 1) ELSE i

\* end (exclusive) of the maximal run of digits and commas starting at i
RECURSIVE NumRunEnd(_, _)
NumRunEnd(s, i) ==
    IF i <= Len(s) /\ (IsDigit(s[i]) \/ s[i] = ",")
    THEN NumRunEnd(s, i + 1) ELSE i

\* str.replace(",", "")
RECURSIVE RemoveCommas(_)
RemoveCommas(s) ==
    IF s = <<>> THEN <<>>
    ELSE IF Head(s) = "," THEN RemoveCommas(Tail(s))
         ELSE <<Head(s)>> \o RemoveCommas(Tail(s))

\* the number a run of decimal digits denotes
RECURSIVE DigitsToInt(_)
DigitsToInt(s) ==
    IF s = <<>> THEN 0
    ELSE 10 * DigitsToInt(SubSeq(s, 1, Len(s) - 1)) + DigitVal(s[Len(s)])

---------------------------------------------------------------------------
(* _MONEY_RE and parse_money (bill_parser_v2.py) *)

NoMatch == [matched |-> FALSE]

\* (?:,\d{3})* from position i to the end of num
RECURSIVE CommaGroups(_, _)
CommaGroups(num, i) ==
    IF i > Len(num) THEN TRUE
    ELSE /\ num[i] = ","
         /\ i + 3 <= Len(num)
         /\ \A k \in (i + 1)..(i + 3) : IsDigit(num[k])
         /\ CommaGroups(num, i + 4)

\* \d{1,3}(?:,\d{3})*
GroupedInt(num) ==
    LET e == DigitRunEnd(num, 1)
    IN  e - 1 \in 1..3 /\ CommaGroups(num, e)

\* \d+
PlainInt(num) == num # <<>> /\ DigitRunEnd(num, 1) = Len(num) + 1

\* (?P<num>\d{1,3}(?:,\d{3})*|\d+)
NumGroup(num) == GroupedInt(num) \/ PlainInt(num)

\* (?P<suf>CR|DR)? at position j: the suffix found there, <<>> if none
SufAt(s, j) ==
    IF j + 1 <= Len(s) /\ s[j] \in {"C", "D"} /\ s[j + 1] = "R"
    THEN SubSeq(s, j, j + 1) ELSE <<>>

\* _MONEY_RE.match(s): the groups sign, num, 4 (the fraction digits) and suf,
\* or NoMatch.  The expression is anchored at both ends and no part can
\* begin with a character of the part before it, so each part is the
\* maximal run found at its place.
MoneyReMatch(s) ==
    LET i0 == SkipSpaces(s, 1)
        hasSign == i0 <= Len(s) /\ s[i0] \in {"-", "+"}
        i1 == IF hasSign THEN i0 + 1 ELSE i0
        i2 == SkipSpaces(s, i1)
        hasCur == i2 <= Len(s) /\ s[i2] \in {"PESO", "P", "p"}
        i3 == IF hasCur THEN i2 + 1 ELSE i2
        i4 == SkipSpaces(s, i3)
        ne == NumRunEnd(s, i4)
        num == SubSeq(s, i4, ne - 1)
        hasDot == ne <= Len(s) /\ s[ne] = "."
        fe == IF hasDot THEN DigitRunEnd(s, ne + 1) ELSE ne
        frac == IF hasDot THEN SubSeq(s, ne + 1, fe - 1) ELSE <<>>
        j0 == SkipSpaces(s, fe)
        suf == SufAt(s, j0)
        j1 == SkipSpaces(s, j0 + Len(suf))
    IN  IF /\ NumGroup(num)
           /\ (hasDot => Len(frac) \in 1..2)
           /\ j1 = Len(s) + 1
        THEN [matched |-> TRUE,
              sign |-> IF hasSign THEN s[i0] ELSE "",
              num |-> num, frac |-> frac, suf |-> suf]
        ELSE NoMatch

\* a faulty variant of lines 198-205: the DR suffix does not keep a
\* parenthesised or minus-signed amount from being negated
MoneySigned_NoDebitOverride(q, paren_neg, sign, suf) ==
    IF paren_neg \/ sign = "-" \/ suf = <<"C", "R">> THEN 0 - q ELSE q

\* lines 198-205: the sign of the result
MoneySigned(q, paren_neg, sign, suf) ==
    LET is_credit_negative == suf = <<"C", "R">>
        is_debit_positive == suf = <<"D", "R">>
        negative == paren_neg \/ sign = "-" \/ is_credit_negative
    IN  IF negative /\ ~is_debit_positive THEN 0 - q ELSE q

\* a faulty variant of lines 175-177: the "if not m" test is left out
MoneyGuard_Missing(m, value) == value

\* lines 175-177: the value of m.group(...) when m is None is an
\* AttributeError; "if not m: return None" keeps the call from it
MoneyGuard(m, value) ==
    IF ~m.matched THEN None ELSE value

RECURSIVE Pow10(_)
Pow10(k) == IF k = 0 THEN 1 ELSE 10 * Pow10(k - 1)

\* n / d rounded to an integer, ROUND_HALF_EVEN
RoundHalfEven(n, d) ==
    LET a == IF n < 0 THEN 0 - n ELSE n
        quo == a \div d
        rem == a % d
        r == IF 2 * rem > d \/ (2 * rem = d /\ quo % 2 = 1) THEN quo + 1 ELSE quo
    IN  IF n < 0 THEN 0 - r ELSE r

\* lines 193 and 195: Decimal(num + "." + frac): its coefficient and the
\* number of its decimal places
DecimalOf(num, frac) == [coeff |-> DigitsToInt(num \o frac), places |-> Len(frac)]

RECURSIVE StripLeadingZeros(_)
StripLeadingZeros(num) ==
    IF num # <<>> /\ Head(num) = "0" THEN StripLeadingZeros(Tail(num)) ELSE num

\* line 208: quantize signals InvalidOperation when the coefficient of its
\* result has more digits than the precision of the context, 28
QuantizeFits(num) == Len(StripLeadingZeros(num)) + 2 <= 28

\* a faulty variant of line 208: the value is returned as it was read
Quantize_Skipped(q) == [t |-> "decimal", cents |-> q.coeff, places |-> q.places]

\* line 208: q.quantize(Decimal("0.01"), rounding=ROUND_HALF_EVEN)
Quantize(q) ==
    IF q.places <= 2 THEN Dec(q.coeff * Pow10(2 - q.places))
    ELSE Dec(RoundHalfEven(q.coeff, Pow10(q.places - 2)))

\* lines 193-208 for a match m
MoneyValue(m, paren_neg) ==
    With(RemoveCommas(m.num), LAMBDA num :
        IF ~QuantizeFits(num) THEN Raise("InvalidOperation")
        ELSE With(DecimalOf(num, m.frac), LAMBDA q :
                Quantize([q EXCEPT !.coeff = MoneySigned(q.coeff, paren_neg,
                                                         m.sign, m.suf)])))

\* parse_money(s): a Decimal with two places (in hundredths), or None
parse_money(s0) ==
    LET s1 == Strip(s0)
        s2 == NFKC(s1)
        paren_neg == s2 # <<>> /\ s2[1] = "(" /\ s2[Len(s2)] = ")"
        s3 == IF paren_neg THEN Strip(SubSeq(s2, 2, Len(s2) - 1)) ELSE s2
        m == MoneyReMatch(s3)
    IN  IF s1 = <<>> THEN None
        ELSE MoneyGuard(m,
               IF ~m.matched THEN Raise("AttributeError")
               ELSE MoneyValue(m, paren_neg))

\* lines 210-211: int((q * 100).to_integral_value(rounding=ROUND_HALF_EVEN))
ReturnCents(q) == PyInt(RoundHalfEven(q.cents * 100, Pow10(q.places)))

\* parse_money(s, return_cents=True)
parse_money_cents(s0) ==
    With(parse_money(s0), LAMBDA q : IF q.t = "decimal" THEN ReturnCents(q) ELSE q)

---------------------------------------------------------------------------
(* Date tokens.  layout: "MDY" (Mon D, YYYY), "DMY" (D Mon YYYY), "MDYnc"  *)
(* (Mon D YYYY), "DMYd" (D-Mon-YYYY).  name: the month word is the "full"  *)
(* name, the three-letter "abbr", "sept", or an "other" word.  case:       *)
(* "title", "upper" or "lower".  "May" is a full name and an abbreviation. *)

DateTok(layout, name, case, m, d, y) ==
    [k |-> "date", layout |-> layout, name |-> name, case |-> case,
     m |-> m, d |-> d, y |-> y]

\* a token that is a plain run of characters: a money token, or the string ""
Chars(s) == [k |-> "chars", s |-> s]

EmptyStr == Chars(<<>>)

IsDateTok(s) == s.k = "date"

IsFullName(dt) == dt.name = "full" \/ (dt.name = "abbr" /\ dt.m = 5)
IsAbbrName(dt) == dt.name = "abbr" \/ (dt.name = "full" /\ dt.m = 5)

IsLeap(y) == (y % 4 = 0 /\ y % 100 # 0) \/ y % 400 = 0

DaysIn(m, y) ==
    CASE m \in {4, 6, 9, 11} -> 30
      [] m = 2 -> IF IsLeap(y) THEN 29 ELSE 28
      [] OTHER -> 31

\* datetime.strptime succeeds on the numbers: %d is 1..31 and a day of the
\* month, %Y a year from 1 on
ValidDay(dt) == dt.y >= 1 /\ dt.m \in 1..12 /\ dt.d >= 1 /\ dt.d <= DaysIn(dt.m, dt.y)

\* bill_parser_v2.py: MONTH, DATE_LONG, DATE_DMY, DATE_ANY (used with
\* re.IGNORECASE by TABLE_ROW)
DATE_LONG(dt) == dt.layout = "MDY" /\ IsFullName(dt)
DATE_DMY(dt) == dt.layout = "DMY" /\ (IsAbbrName(dt) \/ dt.name = "sept")
DATE_ANY(dt) == DATE_LONG(dt) \/ DATE_DMY(dt)

\* fmts of parse_date: "%B %d, %Y", "%b %d, %Y", "%d %b %Y", "%d %B %Y";
\* strptime matches month names whatever their case
ParseDateFormat(dt) ==
    \/ dt.layout = "MDY" /\ IsFullName(dt)
    \/ dt.layout = "MDY" /\ IsAbbrName(dt)
    \/ dt.layout = "DMY" /\ IsAbbrName(dt)
    \/ dt.layout = "DMY" /\ IsFullName(dt)

\* parse_date(s): a date, or ValueError("Unrecognized date format")
parse_date(s) ==
    IF IsDateTok(s) /\ ParseDateFormat(s) /\ ValidDay(s)
    THEN Date(s.y, s.m, s.d)
    ELSE Raise("UnrecognizedDateFormat")

\* table_parser.py: DATE_CAND (re.IGNORECASE): month word first with any
\* month word of the list, or day first with an abbreviation other than Sept
DATE_CAND(dt) ==
    \/ /\ dt.layout \in {"MDY", "MDYnc"}
       /\ dt.name \in {"full", "abbr", "sept"}
    \/ /\ dt.layout \in {"DMY", "DMYd"}
       /\ IsAbbrName(dt)

\* s.strip().replace("Sept", "Sep"): the month word after the replacement,
\* which finds "Sept" in title case only and also inside "September"
SeptReplaced(dt) ==
    CASE dt.name = "sept" /\ dt.case = "title" -> "abbr"
      [] dt.name = "full" /\ dt.m = 9 /\ dt.case = "title" -> "other"
      [] OTHER -> dt.name

\* DATE_FORMATS: "%B %d, %Y", "%b %d, %Y", "%d %b %Y", "%d-%b-%Y",
\* "%B %d %Y", "%b %d %Y"
DateFormatsMatch(dt) ==
    \/ dt.layout = "MDY" /\ (IsFullName(dt) \/ IsAbbrName(dt))
    \/ dt.layout = "DMY" /\ IsAbbrName(dt)
    \/ dt.layout = "DMYd" /\ IsAbbrName(dt)
    \/ dt.layout = "MDYnc" /\ (IsFullName(dt) \/ IsAbbrName(dt))

\* parse_date_safe(s): a datetime, or None
parse_date_safe(dt) ==
    LET r == [dt EXCEPT !.name = SeptReplaced(dt)]
    IN  IF DateFormatsMatch(r) /\ ValidDay(r) THEN Date(r.y, r.m, r.d) ELSE None

---------------------------------------------------------------------------
(* The money tokens parse_money is called on *)

MaxIntLen == 5

\* all sequences over S of length 1..n
RECURSIVE SeqsUpTo(_, _)
SeqsUpTo(S, n) ==
    IF n = 0 THEN {}
    ELSE LET shorter == SeqsUpTo(S, n - 1)
         IN  {<<c>> : c \in S} \cup shorter
             \cup {Append(q, c) : q \in shorter, c \in S}

\* digit-and-comma runs, well grouped and not, of value zero and not
IntRuns == SeqsUpTo({"0", ","}, MaxIntLen) \cup SeqsUpTo({"1", ","}, MaxIntLen)

Prefixes == {<<>>, <<"-">>, <<"+">>, <<"P">>, <<"-", "P">>, <<"PESO", " ">>}
Fracs == {<<>>, <<".", "5">>, <<".", "5", "0">>, <<".", "5", "0", "5">>}
Suffixes == {<<>>, <<"C", "R">>, <<"D", "R">>, <<" ", "D", "R">>, <<"c", "r">>}
WrapKinds == {"bare", "paren", "open", "padded", "fullwidth"}

Wrap(k, s) ==
    CASE k = "bare" -> s
      [] k = "paren" -> <<"(">> \o s \o <<")">>
      [] k = "open" -> <<"(">> \o s
      [] k = "padded" -> <<" ">> \o s \o <<" ">>
      [] k = "fullwidth" -> <<"FWLP">> \o s \o <<"FWRP">>

\* '(1,234.56)', '1,234.56CR', '1,234.56DR', 'PESO 1,000' without the blank,
\* '', ' ', '()', and a run of 27 digits
ExampleTokens ==
    { <<"(", "1", ",", "2", "3", "4", ".", "5", "6", ")">>,
      <<"1", ",", "2", "3", "4", ".", "5", "6", "C", "R">>,
      <<"1", ",", "2", "3", "4", ".", "5", "6", "D", "R">>,
      <<"PESO", "1", ",", "0", "0", "0">>,
      <<>>, <<" ">>, <<"(", ")">>,
      [i \in 1..27 |-> "1"] }

MoneyTokens ==
    ExampleTokens \cup
    { Wrap(k, p \o r \o f \o x) :
        k \in WrapKinds, p \in Prefixes, r \in IntRuns, f \in Fracs, x \in Suffixes }

---------------------------------------------------------------------------
(* A call of parse_money *)

\* no interleaved calls are under way
NoCalls == frames = <<>>

\* no call of the services is in progress
ServicesIdle ==
    /\ dueamt = <<>>
    /\ tm = <<>>
    /\ fetch = <<>>
    /\ rt = <<>>
    /\ tracker = <<>>
    /\ api = <<>>

ExtractIdle ==
    /\ text = <<>>
    /\ pc = "idle"
    /\ consulted = <<>>
    /\ result = None

InitMoney ==
    /\ mtok \in MoneyTokens
    /\ mpc = "call"
    /\ mout = None
    /\ ExtractIdle
    /\ NoCalls
    /\ ServicesIdle

ParseMoneyCall ==
    /\ mpc = "call"
    /\ mout' = parse_money(mtok)
    /\ mpc' = "done"
    /\ UNCHANGED <<mtok, text, pc, consulted, result, frames, serviceVars>>

ParseMoneyCentsCall ==
    /\ mpc = "call"
    /\ mout' = parse_money_cents(mtok)
    /\ mpc' = "cents"
    /\ UNCHANGED <<mtok, text, pc, consulted, result, frames, serviceVars>>

NextMoney == ParseMoneyCall \/ ParseMoneyCentsCall

SpecMoney == InitMoney /\ [][NextMoney]_vars

---------------------------------------------------------------------------
(* A call of parse_date, and of the date step of extract_after_header, on  *)
(* one date token                                                          *)

\* month words and the month they name: a full name, an abbreviation,
\* "Sept", and a word that names no month
MonthWords ==
    {<<n, m>> : n \in {"full", "abbr"}, m \in {2, 5, 8, 9}}
    \cup {<<"sept", 9>>, <<"other", 0>>}

DateTokens ==
    { DateTok(l, w[1], c, w[2], d, y) :
        l \in {"MDY", "DMY", "MDYnc", "DMYd"},
        w \in MonthWords,
        c \in {"title", "upper", "lower"},
        d \in {1, 28, 29, 30, 31},
        y \in {2024, 2025} }

InitDate ==
    /\ mtok \in DateTokens
    /\ mpc = "call"
    /\ mout = None
    /\ ExtractIdle
    /\ NoCalls
    /\ ServicesIdle

ParseDateCall ==
    /\ mpc = "call"
    /\ mout' = parse_date(mtok)
    /\ mpc' = "done"
    /\ UNCHANGED <<mtok, text, pc, consulted, result, frames, serviceVars>>

\* table_parser.py lines 69-71 for a block that holds the one token: the
\* datetime kept for it, None when DATE_CAND does not find it or
\* parse_date_safe does not parse it
DateKept(tok) == IF DATE_CAND(tok) THEN parse_date_safe(tok) ELSE None

DateStepCall ==
    /\ mpc = "call"
    /\ mout' = DateKept(mtok)
    /\ mpc' = "kept"
    /\ UNCHANGED <<mtok, text, pc, consulted, result, frames, serviceVars>>

NextDate == ParseDateCall \/ DateStepCall

SpecDate == InitDate /\ [][NextDate]_vars

---------------------------------------------------------------------------
(* Texts: the other tokens, and the text as one run of tokens *)

Lbl(l) == [k |-> "lbl", l |-> l]
Bar == [k |-> "bar"]
Word(w) == [k |-> "word", w |-> w]
Cust(s) == [k |-> "cust", s |-> s]
NL == [k |-> "nl"]

\* the lines joined by "\n"
RECURSIVE Flat(_)
Flat(lines) ==
    IF lines = <<>> THEN <<>>
    ELSE IF Len(lines) = 1 THEN lines[1]
         ELSE lines[1] \o <<NL>> \o Flat(Tail(lines))

\* the next token after position i that is not a line break: \s+ and \s*
\* run over line breaks (0 when the text ends first)
RECURSIVE NextTok(_, _)
NextTok(st, i) ==
    IF i + 1 > Len(st) THEN 0
    ELSE IF st[i + 1].k = "nl" THEN NextTok(st, i + 1) ELSE i + 1

SetMin(S) == CHOOSE x \in S : \A y \in S : x <= y

---------------------------------------------------------------------------
(* Strategy A: PATTERNS (bill_parser_v2.py) *)

NoCapture == [k |-> "nocapture"]

PatternKeys == {"total_balance", "due_date", "min_payment"}

\* the label each pattern is anchored on; (?:payment\s+)?due\s+date is found
\* in "due date" and in "payment due date"
PatternLabel(key, tok) ==
    /\ tok.k = "lbl"
    /\ CASE key = "total_balance" -> tok.l = "total account balance"
         [] key = "due_date" -> tok.l \in {"due date", "payment due date"}
         [] key = "min_payment" -> tok.l = "minimum payment"

\* ([\d,]+\.\d{2}) at the start of a token: the run of digits and commas,
\* the point and two digits; what follows them is not looked at
AmountCapture(tok) ==
    IF tok.k # "chars" THEN NoCapture
    ELSE LET e == NumRunEnd(tok.s, 1)
         IN  IF /\ e > 1
                /\ e + 2 <= Len(tok.s)
                /\ tok.s[e] = "."
                /\ IsDigit(tok.s[e + 1]) /\ IsDigit(tok.s[e + 2])
             THEN Chars(SubSeq(tok.s, 1, e + 2))
             ELSE NoCapture

\* (\d{1,2}\s+\w+\s+\d{4}): day, any word, year, separated by white space
DueDateCapture(tok) ==
    IF tok.k = "date" /\ tok.layout = "DMY" THEN tok ELSE NoCapture

PatternCapture(key, tok) ==
    IF key = "due_date" THEN DueDateCapture(tok) ELSE AmountCapture(tok)

\* re.search(pattern, text): group 1 of the leftmost match, or None
PatternSearch(st, key) ==
    With({i \in 1..Len(st) :
            /\ PatternLabel(key, st[i])
            /\ NextTok(st, i) # 0
            /\ PatternCapture(key, st[NextTok(st, i)]) # NoCapture},
         LAMBDA hits :
            IF hits = {} THEN NoCapture
            ELSE PatternCapture(key, st[NextTok(st, SetMin(hits))]))

\* lines 216-222: b and none_count
StrictCaptures(txt) ==
    With(Flat(txt), LAMBDA st :
        [total_balance |-> PatternSearch(st, "total_balance"),
         due_date |-> PatternSearch(st, "due_date"),
         min_payment |-> PatternSearch(st, "min_payment")])

NoneCount(b) == Cardinality({key \in PatternKeys : b[key] = NoCapture})

\* a faulty variant of line 224: one missing capture is let through
StrictSequenceMatched_OneMissAllowed(b) == NoneCount(b) <= 1

\* line 224: if none_count == 0
StrictSequenceMatched(b) == NoneCount(b) = 0

\* lines 229-230: parse_money(b[key]); parse_money(None) is parse_money("")
CapturedMoney(c) == IF c = NoCapture THEN None ELSE parse_money(c.s)

\* line 231: parse_date(b["due_date"]); None has no split()
CapturedDate(c) == IF c = NoCapture THEN Raise("AttributeError") ELSE parse_date(c)

---------------------------------------------------------------------------
(* Strategy B: TABLE_ROW (bill_parser_v2.py) *)

\* the class [\s PESO P ( ) \d , .] under re.IGNORECASE
CellChar(c) == IsDigit(c) \/ c \in {" ", "PESO", "P", "p", "(", ")", ",", "."}

IsCellTok(tok) ==
    \/ tok.k = "nl"
    \/ tok.k = "chars" /\ \A i \in 1..Len(tok.s) : CellChar(tok.s[i])

\* end (exclusive) of the maximal run of cell tokens starting at i
RECURSIVE CellEnd(_, _)
CellEnd(st, i) ==
    IF i <= Len(st) /\ IsCellTok(st[i]) THEN CellEnd(st, i + 1) ELSE i

\* the characters of the tokens i..j-1, white space between them; a cell
\* without tokens is captured as one blank
RECURSIVE CellJoin(_, _, _)
CellJoin(st, i, j) ==
    IF i >= j THEN <<>>
    ELSE (IF st[i].k = "nl" THEN <<>> ELSE st[i].s)
         \o <<" ">> \o CellJoin(st, i + 1, j)

CellText(st, i, j) ==
    With(Strip(CellJoin(st, i, j)), LAMBDA c : IF c = <<>> THEN <<" ">> ELSE c)

\* TABLE_ROW matched with its ^\| at token i: a bar that begins a line, two
\* cells closed by bars, a DATE_ANY cell closed by a bar (the fourth cell
\* and its bar may be empty or missing)
RowMatchAt(st, i) ==
    /\ st[i].k = "bar"
    /\ (i = 1 \/ st[i - 1].k = "nl")
    /\ \E j1 \in {CellEnd(st, i + 1)} :
          /\ j1 <= Len(st) /\ st[j1].k = "bar"
          /\ \E j2 \in {CellEnd(st, j1 + 1)} :
                /\ j2 <= Len(st) /\ st[j2].k = "bar"
                /\ \E d \in {NextTok(st, j2)} :
                      /\ d # 0 /\ st[d].k = "date" /\ DATE_ANY(st[d])
                      /\ \E e \in {NextTok(st, d)} : e # 0 /\ st[e].k = "bar"

\* the groups of the match that begins at token i
RowGroups(st, i) ==
    With(CellEnd(st, i + 1), LAMBDA j1 :
    With(CellEnd(st, j1 + 1), LAMBDA j2 :
        [matched |-> TRUE,
         total_due |-> CellText(st, i + 1, j1),
         min_due |-> CellText(st, j1 + 1, j2),
         payment_due |-> st[NextTok(st, j2)]]))

\* TABLE_ROW.search(text).groupdict(), or NoMatch
TableRowSearch(txt) ==
    With(Flat(txt), LAMBDA st :
    With({i \in 1..Len(st) : RowMatchAt(st, i)}, LAMBDA hits :
        IF hits = {} THEN NoMatch ELSE RowGroups(st, SetMin(hits))))

---------------------------------------------------------------------------
(* Strategy C: extract_after_header (table_parser.py) *)

max_lines == 12

HeaderLabels ==
    {"customer number", "statement date", "credit limit",
     "total amount due", "minimum amount due", "payment due date"}

\* a faulty variant of HEADER_ANY_ORDER: the labels are looked for one
\* after the other, in the order the expression lists them
HEADER_ANY_ORDER_InOrder(line) ==
    \E f \in [1..6 -> 1..Len(line)] :
        /\ \A i \in 1..5 : f[i] < f[i + 1]
        /\ line[f[1]] = Lbl("customer number")
        /\ line[f[2]] = Lbl("statement date")
        /\ line[f[3]] = Lbl("credit limit")
        /\ line[f[4]] = Lbl("total amount due")
        /\ line[f[5]] = Lbl("minimum amount due")
        /\ line[f[6]] = Lbl("payment due date")

\* HEADER_ANY_ORDER.match on the line with its white space collapsed
HEADER_ANY_ORDER(line) ==
    \A h \in HeaderLabels : \E i \in 1..Len(line) : line[i] = Lbl(h)

\* lines 42-46: index of the first header line, 0 for hdr_idx None
HeaderIndex(lines) ==
    LET hits == {i \in 1..Len(lines) : HEADER_ANY_ORDER(lines[i])}
    IN  IF hits = {} THEN 0 ELSE SetMin(hits)

\* a faulty variant of line 54: no line stops the block
IsStopLine_Never(line) == FALSE

\* ln.strip().startswith(m) for m in ("| Previous", "## ")
IsStopLine(line) ==
    /\ Len(line) >= 2
    /\ \/ line[1] = Bar /\ line[2] = Word("Previous")
       \/ line[1] = Word("##")

\* lines 52-58: the block collected from line i on
RECURSIVE CollectBlock(_, _, _)
CollectBlock(lines, i, block) ==
    IF i > Len(lines) \/ IsStopLine(lines[i]) THEN block
    ELSE With(Append(block, lines[i]), LAMBDA grown :
            IF Len(grown) >= max_lines THEN grown
            ELSE CollectBlock(lines, i + 1, grown))

\* lines 61-62: the block's lines joined by single blanks
RECURSIVE Blob(_)
Blob(block) == IF block = <<>> THEN <<>> ELSE Head(block) \o Blob(Tail(block))

\* ASCII letters among the characters of the model
IsLetter(c) == c \in {"C", "D", "R", "P", "p", "c", "r"}

WordChar(c) == IsDigit(c) \/ IsLetter(c)

\* (?:,\d{3}) repeated: ends (exclusive) of 0, 1, 2, ... groups from i on
RECURSIVE GroupEnds(_, _)
GroupEnds(s, i) ==
    IF /\ i + 3 <= Len(s) /\ s[i] = ","
       /\ \A k \in (i + 1)..(i + 3) : IsDigit(s[k])
    THEN <<i>> \o GroupEnds(s, i + 4) ELSE <<i>>

HasFrac2(s, i) ==
    i + 2 <= Len(s) /\ s[i] = "." /\ IsDigit(s[i + 1]) /\ IsDigit(s[i + 2])

LookaheadOk(s, e) == e > Len(s) \/ ~WordChar(s[e])

\* MONEY_STRICT tried at position i: the end (exclusive) of its match, 0 if
\* none.  First \d{1,3}(?:,\d{3})+(?:\.\d{2})?, the regex engine giving up
\* the fraction and then groups until (?![\dA-Za-z]) holds, then \d+\.\d{2}.
StrictAlternatives(s, i, de, ends) ==
    With({e \in 1..(Len(s) + 1) :
            \E g \in 2..Len(ends) :
                /\ \/ e = ends[g]
                   \/ HasFrac2(s, ends[g]) /\ e = ends[g] + 3
                /\ LookaheadOk(s, e)},
         LAMBDA cands :
            IF de - i \in 1..3 /\ cands # {}
            THEN CHOOSE e \in cands : \A f \in cands : f <= e
            ELSE IF de > i /\ HasFrac2(s, de) /\ LookaheadOk(s, de + 3)
            THEN de + 3 ELSE 0)

StrictEndAt(s, i) ==
    IF i > Len(s) \/ ~IsDigit(s[i]) THEN 0
    ELSE IF i > 1 /\ WordChar(s[i - 1]) THEN 0
    ELSE With(DigitRunEnd(s, i), LAMBDA de :
         With(GroupEnds(s, de), LAMBDA ends :
              StrictAlternatives(s, i, de, ends)))

\* MONEY_STRICT.finditer over one token, from position i on
RECURSIVE StrictFindFrom(_, _)
StrictFindFrom(s, i) ==
    IF i > Len(s) THEN <<>>
    ELSE With(StrictEndAt(s, i), LAMBDA e :
            IF e = 0 THEN StrictFindFrom(s, i + 1)
            ELSE <<Chars(SubSeq(s, i, e - 1))>> \o StrictFindFrom(s, e))

\* [m.group(0) for m in MONEY_STRICT.finditer(...)] over a run of tokens
RECURSIVE MoneyStrictAll(_)
MoneyStrictAll(toks) ==
    IF toks = <<>> THEN <<>>
    ELSE (IF Head(toks).k = "chars" THEN StrictFindFrom(Head(toks).s, 1) ELSE <<>>)
         \o MoneyStrictAll(Tail(toks))

\* the elements of a sequence
Range(q) == {q[i] : i \in 1..Len(q)}

Items(p) == [i \in 1..Len(p) |-> p[i][2]]

\* the items of p at the indices of the set keep, in order
AtIndices(p, keep) ==
    [r \in 1..Cardinality(keep) |->
        p[CHOOSE i \in keep : Cardinality({j \in keep : j < i}) = r - 1]]

\* keyed items without those whose key was seen before, the first kept
DedupKeyed(p) ==
    AtIndices(p, {i \in 1..Len(p) : \A j \in 1..(i - 1) : p[j][1] # p[i][1]})

\* how many keyed items sorted() puts before item i: it is stable
SortRank(p, i) ==
    Cardinality({j \in 1..Len(p) :
                    \/ p[j][1] < p[i][1]
                    \/ p[j][1] = p[i][1] /\ j < i})

\* keyed items in ascending order of their integer keys, as sorted() and
\* list.sort() order them
SortKeyed(p) ==
    [r \in 1..Len(p) |-> p[CHOOSE i \in 1..Len(p) : SortRank(p, i) = r - 1]]

\* <<key, item>> for every item of a sequence
Keyed(q, Key(_)) ==
    CHOOSE p \in {[i \in 1..Len(x) |-> <<Key(x[i]), x[i]>>] : x \in {q}} : TRUE

\* Natural numbers of any size, written as their decimal digits without
\* leading zeros: the amounts of a text are not bounded by a machine word
RECURSIVE NatNormal(_)
NatNormal(a) == IF a # <<>> /\ a[1] = 0 THEN NatNormal(Tail(a)) ELSE a

NatOfDigits(s) == NatNormal([i \in 1..Len(s) |-> DigitVal(s[i])])

NatLess(a, b) ==
    \/ Len(a) < Len(b)
    \/ /\ Len(a) = Len(b)
       /\ \E i \in 1..Len(a) :
            a[i] < b[i] /\ \A j \in 1..(i - 1) : a[j] = b[j]

RECURSIVE SmallNat(_)
SmallNat(n) == IF n = 0 THEN <<>> ELSE SmallNat(n \div 10) \o <<n % 10>>

\* a * k + c, for small k and c
RECURSIVE NatTimesPlus(_, _, _)
NatTimesPlus(a, k, c) ==
    IF a = <<>> THEN SmallNat(c)
    ELSE With(a[Len(a)] * k + c, LAMBDA v :
            NatTimesPlus(SubSeq(a, 1, Len(a) - 1), k, v \div 10) \o <<v % 10>>)

NatOdd(a) == a # <<>> /\ a[Len(a)] % 2 = 1

\* a \div 2
NatHalf(a) ==
    NatNormal([i \in 1..Len(a) |->
        ((IF i > 1 /\ a[i - 1] % 2 = 1 THEN 10 ELSE 0) + a[i]) \div 2])

\* a * 2^h
RECURSIVE NatDoubled(_, _)
NatDoubled(a, h) == IF h = 0 THEN a ELSE NatDoubled(NatTimesPlus(a, 2, 0), h - 1)

\* 2^53: the significand of a double has 53 bits
TwoTo53 == <<9, 0, 0, 7, 1, 9, 9, 2, 5, 4, 7, 4, 0, 9, 9, 2>>

\* the significand: q halved until it is below 2^53, then rounded to the
\* nearest integer, a tie to the even one, and scaled back.  frac tells how
\* what was cut off compares with one half.
RECURSIVE Round53(_, _, _)
Round53(q, frac, h) ==
    IF NatLess(q, TwoTo53)
    THEN NatDoubled(IF frac = "above" \/ (frac = "half" /\ NatOdd(q))
                    THEN NatTimesPlus(q, 1, 1) ELSE q, h)
    ELSE Round53(NatHalf(q),
                 IF NatOdd(q) THEN (IF frac = "zero" THEN "half" ELSE "above")
                 ELSE (IF frac = "zero" THEN "zero" ELSE "below"),
                 h + 1)

\* float() of an amount of n hundredths, in units of 1/51200.  Up to 15
\* significant digits every decimal has a double of its own, in the same
\* order; a longer one is rounded to the nearest double, which from 10^13
\* on is a whole number of these units.
FloatOfCents(n) ==
    IF Len(n) <= 15 THEN NatTimesPlus(n, 512, 0)
    ELSE With(NatTimesPlus(n, 512, 0), LAMBDA a :
         With(10 * a[Len(a) - 1] + a[Len(a)], LAMBDA r :
              Round53(SubSeq(a, 1, Len(a) - 2),
                      IF r = 0 THEN "zero" ELSE IF r < 50 THEN "below"
                      ELSE IF r = 50 THEN "half" ELSE "above",
                      0) \o <<0, 0>>))

\* m2f: float(s.replace(",", "")); a MONEY_STRICT string has two fraction
\* digits or none
m2f(tok) ==
    With(NumRunEnd(tok.s, 1), LAMBDA e :
        FloatOfCents(NatOfDigits(
            RemoveCommas(SubSeq(tok.s, 1, e - 1))
            \o (IF e > Len(tok.s) THEN <<"0", "0">>
                ELSE SubSeq(tok.s, e + 1, Len(tok.s))))))

\* how many keyed items sorted() puts before item i, the keys being floats
SortRankFloat(p, i) ==
    Cardinality({j \in 1..Len(p) :
                    \/ NatLess(p[j][1], p[i][1])
                    \/ p[j][1] = p[i][1] /\ j < i})

\* sorted(distinct, key=m2f)
SortKeyedFloat(p) ==
    [r \in 1..Len(p) |-> p[CHOOSE i \in 1..Len(p) : SortRankFloat(p, i) = r - 1]]

\* datetime order
DateOrd(d) == d.y * 10000 + d.m * 100 + d.d

\* the key of line 75
DayKey(t) == DateOrd(parse_date_safe(t))

\* a faulty variant of lines 69-81: uniq is left in the order of the block
UniqueDates_InBlockOrder(blob) ==
    With(SelectSeq(blob, LAMBDA t : t.k = "date" /\ DATE_CAND(t)), LAMBDA date_strs :
    With(SelectSeq(date_strs, LAMBDA t : parse_date_safe(t) # None), LAMBDA parsed :
    With(Keyed(parsed, DayKey), LAMBDA keyed :
         Items(DedupKeyed(keyed)))))

\* lines 69-81: the date strings of the block: parsed, failures dropped,
\* one per calendar day, in chronological order
UniqueDates(blob) ==
    With(SelectSeq(blob, LAMBDA t : t.k = "date" /\ DATE_CAND(t)), LAMBDA date_strs :
    With(SelectSeq(date_strs, LAMBDA t : parse_date_safe(t) # None), LAMBDA parsed :
    With(Keyed(parsed, DayKey), LAMBDA keyed :
    With(DedupKeyed(keyed), LAMBDA uniq :
         Items(SortKeyed(uniq))))))

\* the key of lines 93-96: the string itself
SameString(t) == t

\* a faulty variant of lines 84-99: the whole block is searched at once
MoneyDistinct_WholeBlock(blob, cm) ==
    With(Keyed(MoneyStrictAll(blob), SameString), LAMBDA keyed :
    With(Items(DedupKeyed(keyed)), LAMBDA all :
         SubSeq(all, 1, IF Len(all) < 3 THEN Len(all) ELSE 3)))

\* lines 84-99: the money strings taken: after the customer number, the
\* whole block when fewer than three distinct ones are found there; the
\* first three distinct in order
MoneyDistinct(blob, cm) ==
    With(MoneyStrictAll(IF cm # 0 THEN SubSeq(blob, cm + 1, Len(blob)) ELSE blob),
         LAMBDA after :
    With(IF Cardinality(Range(after)) < 3 THEN MoneyStrictAll(blob) ELSE after,
         LAMBDA money_vals :
    With(Keyed(money_vals, SameString), LAMBDA keyed :
    With(Items(DedupKeyed(keyed)), LAMBDA all :
         SubSeq(all, 1, IF Len(all) < 3 THEN Len(all) ELSE 3)))))

\* a faulty variant of line 116: the dict is returned whatever it holds
HasUsableFields_Always(payment_due, total_due) == TRUE

\* line 116: if payment_due or total_due
HasUsableFields(payment_due, total_due) ==
    payment_due # EmptyStr \/ total_due # EmptyStr

\* lines 104-126: the fields assigned from the sorted amounts and dates
AssignFields(customer_number, uniq, vals) ==
    With([statement_date |-> IF uniq # <<>> THEN uniq[1] ELSE EmptyStr,
          payment_due |-> IF Len(uniq) >= 2 THEN uniq[Len(uniq)] ELSE EmptyStr,
          min_due |-> IF Len(vals) >= 1 THEN vals[1] ELSE EmptyStr,
          credit_limit |-> IF Len(vals) >= 1 THEN vals[Len(vals)] ELSE EmptyStr,
          total_due |-> IF Len(vals) >= 2 THEN vals[Len(vals) - 1] ELSE EmptyStr],
         LAMBDA f :
            IF HasUsableFields(f.payment_due, f.total_due)
            THEN [t |-> "dict",
                  customer_number |-> Str(customer_number),
                  statement_date |-> Str(f.statement_date),
                  payment_due_date |-> Str(f.payment_due),
                  credit_limit |-> Str(f.credit_limit),
                  total_amount_due |-> Str(f.total_due),
                  minimum_amount_due |-> Str(f.min_due),
                  source_layout |-> "table_row"]
            ELSE None)

\* line 65: CUSTOMER_NO.search(blob): where the first customer number is,
\* 0 when cm is None
CustomerAt(blob) ==
    With({i \in 1..Len(blob) : blob[i].k = "cust"}, LAMBDA custs :
        IF custs = {} THEN 0 ELSE SetMin(custs))

\* lines 60-102: the block after the header read
ReadBlock(blob) ==
    With(CustomerAt(blob), LAMBDA cm :
    With(Keyed(MoneyDistinct(blob, cm), m2f), LAMBDA distinct :
         AssignFields(IF cm = 0 THEN EmptyStr ELSE blob[cm],
                      UniqueDates(blob),
                      Items(SortKeyedFloat(distinct)))))

\* extract_after_header(text): a dict of strings, None, or
\* ValueError("Header not found (any order).")
extract_after_header(lines) ==
    With(HeaderIndex(lines), LAMBDA hdr_idx :
        IF hdr_idx = 0 THEN Raise("HeaderNotFound")
        ELSE With(Blob(CollectBlock(lines, hdr_idx + 1, <<>>)), ReadBlock))

---------------------------------------------------------------------------
(* The texts extract_fields is called on: up to MaxLines lines, each one   *)
(* of the lines below                                                      *)

MaxLines == 3

M_100 == Chars(<<"1", "0", "0", ".", "0", "0">>)
M_1234 == Chars(<<"1", ",", "2", "3", "4", ".", "5", "6">>)
M_5000 == Chars(<<"5", ",", "0", "0", "0", ".", "0", "0">>)
M_20000 == Chars(<<"2", "0", ",", "0", "0", "0", ".", "0", "0">>)
M_Misgrouped == Chars(<<"1", "2", ",", "3", "4", ".", "5", "6">>)
M_Point == Chars(<<".">>)

D_Aug1 == DateTok("MDY", "full", "title", 8, 1, 2025)
D_Aug28 == DateTok("MDY", "full", "title", 8, 28, 2025)
D_1Aug == DateTok("DMY", "abbr", "title", 8, 1, 2025)
D_28Aug == DateTok("DMY", "abbr", "upper", 8, 28, 2025)
D_28Foo == DateTok("DMY", "other", "title", 0, 28, 2025)
D_28Sept == DateTok("DMY", "sept", "title", 9, 28, 2025)

C_Card ==
    Cust(<<"1", "2", "3", "4", "-", "5", "6", "7", "8",
           "-", "9", "0", "1", "2", "-", "3", "4", "5", "6">>)

\* Total Account Balance <amount>  Due Date <date>  Minimum Payment 100.00
LabelLine(amount, date) ==
    <<Lbl("total account balance"), amount, Lbl("due date"), date,
      Lbl("minimum payment"), M_100>>

\* | <c1> | 100.00 | <c3> | |
RowLine(c1, c3) == <<Bar, c1, Bar, M_100, Bar, c3, Bar, Bar>>

\* | <cell 1> | 100.00 | <cell 3> |    three cells
ShortRowLine(c1, c3) == <<Bar, c1, Bar, M_100, Bar, c3, Bar>>

HeaderLine ==
    <<Lbl("customer number"), Lbl("statement date"), Lbl("credit limit"),
      Lbl("total amount due"), Lbl("minimum amount due"), Lbl("payment due date")>>

Catalogue ==
    { LabelLine(M_1234, D_28Aug),
      LabelLine(M_Misgrouped, D_28Aug),
      LabelLine(M_1234, D_28Foo),
      <<Lbl("total account balance"), M_1234, Lbl("minimum payment"), M_100>>,
      RowLine(M_5000, D_Aug28),
      RowLine(M_Point, D_28Aug),
      RowLine(M_5000, D_28Sept),
      RowLine(M_5000, M_20000),
      ShortRowLine(M_5000, D_Aug28),
      HeaderLine,
      <<C_Card, D_Aug1, D_Aug28, M_100, M_5000, M_20000>>,
      <<C_Card, D_Aug1, D_1Aug, M_5000, M_100>>,
      <<C_Card, M_100>>,
      <<Word("##"), Word("Transactions")>>,
      <<>> }

Texts == {<<>>} \cup SeqsUpTo(Catalogue, MaxLines)

---------------------------------------------------------------------------
(* extract_fields (bill_parser_v2.py) *)

\* the dict of lines 225-233 and 239-247; an exception raised while its
\* values are computed, in the order they are written, leaves the call
LayoutRecord(total0, minimum0, due0, layout) ==
    With(total0, LAMBDA total :
    With(minimum0, LAMBDA minimum :
    With(due0, LAMBDA due :
        IF total.t = "raise" THEN total
        ELSE IF minimum.t = "raise" THEN minimum
        ELSE IF due.t = "raise" THEN due
        ELSE [t |-> "record",
              customer_number |-> None,
              statement_date |-> None,
              credit_limit |-> None,
              total_amount_due |-> total,
              minimum_amount_due |-> minimum,
              payment_due_date |-> due,
              source_layout |-> layout])))

\* lines 251-254: three entries of the dict of extract_after_header are
\* replaced, the others stay the strings they are
HeaderBlockRecord(m) ==
    With(parse_money(m.total_amount_due.s.s), LAMBDA total :
    With(parse_money(m.minimum_amount_due.s.s), LAMBDA minimum :
    With(parse_date(m.payment_due_date.s), LAMBDA due :
        IF total.t = "raise" THEN total
        ELSE IF minimum.t = "raise" THEN minimum
        ELSE IF due.t = "raise" THEN due
        ELSE [m EXCEPT !.t = "record",
                       !.total_amount_due = total,
                       !.minimum_amount_due = minimum,
                       !.payment_due_date = due])))

\* a faulty variant of the cascade: the table row is passed over
NextStrategy_SkipsTableRow(s) == "C"

\* the strategy the code falls through to when strategy s did not match
\* (line 235 after line 224, line 249 after line 237)
NextStrategy(s) == IF s = "A" THEN "B" ELSE "C"

MoneyIdle ==
    /\ mtok = <<>>
    /\ mpc = "idle"
    /\ mout = None

Init ==
    /\ text \in Texts
    /\ pc = "A"
    /\ consulted = <<>>
    /\ result = None
    /\ MoneyIdle
    /\ NoCalls
    /\ ServicesIdle

\* lines 216-233
StrategyA ==
    /\ pc = "A"
    /\ consulted' = Append(consulted, "A")
    /\ \E b \in {StrictCaptures(text)} :
           IF StrictSequenceMatched(b)
           THEN /\ result' = LayoutRecord(CapturedMoney(b["total_balance"]),
                                          CapturedMoney(b["min_payment"]),
                                          CapturedDate(b["due_date"]),
                                          "string_strict_sequence")
                /\ pc' = "done"
           ELSE /\ pc' = NextStrategy("A")
                /\ UNCHANGED result
    /\ UNCHANGED <<text, mtok, mpc, mout, frames, serviceVars>>

\* lines 236-247
StrategyB ==
    /\ pc = "B"
    /\ consulted' = Append(consulted, "B")
    /\ \E t \in {TableRowSearch(text)} :
           IF t.matched
           THEN /\ result' = LayoutRecord(parse_money(t.total_due),
                                          parse_money(t.min_due),
                                          parse_date(t.payment_due),
                                          "string_table_row")
                /\ pc' = "done"
           ELSE /\ pc' = NextStrategy("B")
                /\ UNCHANGED result
    /\ UNCHANGED <<text, mtok, mpc, mout, frames, serviceVars>>

\* lines 249-256
StrategyC ==
    /\ pc = "C"
    /\ consulted' = Append(consulted, "C")
    /\ \E m \in {extract_after_header(text)} :
           result' = IF m.t = "raise" THEN m
                     ELSE IF m.t = "dict" THEN HeaderBlockRecord(m)
                     ELSE Raise("CouldNotMatch")
    /\ pc' = "done"
    /\ UNCHANGED <<text, mtok, mpc, mout, frames, serviceVars>>

Next == StrategyA \/ StrategyB \/ StrategyC

Spec == Init /\ [][Next]_vars

\* extract_fields(text) run from its first line to its last
extract_fields(txt) ==
    With(StrictCaptures(txt), LAMBDA b :
        IF StrictSequenceMatched(b)
        THEN LayoutRecord(CapturedMoney(b["total_balance"]),
                          CapturedMoney(b["min_payment"]),
                          CapturedDate(b["due_date"]),
                          "string_strict_sequence")
        ELSE With(TableRowSearch(txt), LAMBDA t :
            IF t.matched
            THEN LayoutRecord(parse_money(t.total_due),
                              parse_money(t.min_due),
                              parse_date(t.payment_due),
                              "string_table_row")
            ELSE With(extract_after_header(txt), LAMBDA m :
                IF m.t = "raise" THEN m
                ELSE IF m.t = "dict" THEN HeaderBlockRecord(m)
                ELSE Raise("CouldNotMatch"))))

---------------------------------------------------------------------------
(* Calls of extract_fields on several threads, interleaved statement by   *)
(* statement                                                              *)

NumCalls == 2

Calls == 1..NumCalls

\* PATTERNS (lines 126-130): the keys in the order of the dict
PATTERNS == <<"total_balance", "due_date", "min_payment">>

CallTexts ==
    { <<LabelLine(M_1234, D_28Aug)>>,
      <<LabelLine(M_1234, D_28Foo)>>,
      <<RowLine(M_5000, D_Aug28)>>,
      <<HeaderLine, <<C_Card, D_Aug1, D_Aug28, M_100, M_5000, M_20000>>>>,
      <<HeaderLine, <<C_Card, M_100>>>>,
      <<<<C_Card, M_100>>>> }

\* a faulty variant: text, b and none_count are kept in one place for all
\* calls, as names of the module would be
FrameOf_Shared(c) == 1

\* where the locals of call c are: text is a parameter, b and none_count
\* are assigned in the function (lines 216-217), so every call has its own
FrameOf(c) == c

InitCalls ==
    /\ frames \in
         { [module |-> [PATTERNS |-> PATTERNS],
            arg |-> a,
            pc |-> [c \in Calls |-> "enter"],
            locals |-> [c \in Calls |-> <<>>],
            result |-> [c \in Calls |-> None]] : a \in [Calls -> CallTexts] }
    /\ ExtractIdle
    /\ MoneyIdle
    /\ ServicesIdle

\* lines 214-217: the call binds text, b = {} and none_count = 0
Enter(c) ==
    /\ frames.pc[c] = "enter"
    /\ frames' = [frames EXCEPT
           !.locals[FrameOf(c)] =
               [text |-> frames.arg[c], b |-> <<>>, none_count |-> 0, i |-> 1],
           !.pc[c] = "loop"]
    /\ UNCHANGED <<text, pc, consulted, result, mtok, mpc, mout, serviceVars>>

\* lines 218-222: one turn of the loop over PATTERNS.items()
LoopStep(c) ==
    /\ frames.pc[c] = "loop"
    /\ \E f \in {frames.locals[FrameOf(c)]} :
        /\ f.i <= Len(frames.module.PATTERNS)
        /\ \E key \in {frames.module.PATTERNS[f.i]} :
           \E match \in {PatternSearch(Flat(f.text), key)} :
              frames' = [frames EXCEPT
                  !.locals[FrameOf(c)] =
                      [f EXCEPT
                         !.b = [k \in DOMAIN f.b \cup {key} |->
                                   IF k = key THEN match ELSE f.b[k]],
                         !.none_count = IF match = NoCapture THEN @ + 1 ELSE @,
                         !.i = @ + 1]]
    /\ UNCHANGED <<text, pc, consulted, result, mtok, mpc, mout, serviceVars>>

\* line 218: the loop ends when PATTERNS has no further item
LoopEnd(c) ==
    /\ frames.pc[c] = "loop"
    /\ frames.locals[FrameOf(c)].i > Len(frames.module.PATTERNS)
    /\ frames' = [frames EXCEPT !.pc[c] = "test"]
    /\ UNCHANGED <<text, pc, consulted, result, mtok, mpc, mout, serviceVars>>

\* lines 224-233: a key that b does not hold is a KeyError
StrictStep(c) ==
    /\ frames.pc[c] = "test"
    /\ \E f \in {frames.locals[FrameOf(c)]} :
          IF f.none_count = 0
          THEN frames' = [frames EXCEPT
                  !.result[c] =
                      IF \E k \in PatternKeys : k \notin DOMAIN f.b
                      THEN Raise("KeyError")
                      ELSE LayoutRecord(CapturedMoney(f.b["total_balance"]),
                                        CapturedMoney(f.b["min_payment"]),
                                        CapturedDate(f.b["due_date"]),
                                        "string_strict_sequence"),
                  !.pc[c] = "done"]
          ELSE frames' = [frames EXCEPT !.pc[c] = "B"]
    /\ UNCHANGED <<text, pc, consulted, result, mtok, mpc, mout, serviceVars>>

\* lines 236-247
RowStep(c) ==
    /\ frames.pc[c] = "B"
    /\ \E t \in {TableRowSearch(frames.locals[FrameOf(c)].text)} :
          IF t.matched
          THEN frames' = [frames EXCEPT
                  !.result[c] = LayoutRecord(parse_money(t.total_due),
                                             parse_money(t.min_due),
                                             parse_date(t.payment_due),
                                             "string_table_row"),
                  !.pc[c] = "done"]
          ELSE frames' = [frames EXCEPT !.pc[c] = "C"]
    /\ UNCHANGED <<text, pc, consulted, result, mtok, mpc, mout, serviceVars>>

\* lines 249-256
HeaderStep(c) ==
    /\ frames.pc[c] = "C"
    /\ \E m \in {extract_after_header(frames.locals[FrameOf(c)].text)} :
          frames' = [frames EXCEPT
              !.result[c] = IF m.t = "raise" THEN m
                            ELSE IF m.t = "dict" THEN HeaderBlockRecord(m)
                            ELSE Raise("CouldNotMatch"),
              !.pc[c] = "done"]
    /\ UNCHANGED <<text, pc, consulted, result, mtok, mpc, mout, serviceVars>>

NextCalls ==
    \E c \in Calls :
        \/ Enter(c)
        \/ LoopStep(c)
        \/ LoopEnd(c)
        \/ StrictStep(c)
        \/ RowStep(c)
        \/ HeaderStep(c)

SpecCalls == InitCalls /\ [][NextCalls]_vars

---------------------------------------------------------------------------
(* A call of extract_after_header alone, on texts made of header lines and *)
(* of one block line of money, date and customer-number tokens             *)

MaxHeaderLines == 2
MaxBlockToks == 5
MaxDateToks == 4

M_5000Plain == Chars(<<"5", "0", "0", "0", ".", "0", "0">>)
\* 2^53 and 2^53 + 1: amounts that float() does not tell apart
M_2to53 ==
    Chars(<<"9", "0", "0", "7", "1", "9", "9", "2", "5", "4", "7", "4", "0", "9", "9", "2", ".", "0", "0">>)
M_2to53Plus1 ==
    Chars(<<"9", "0", "0", "7", "1", "9", "9", "2", "5", "4", "7", "4", "0", "9", "9", "3", ".", "0", "0">>)
D_Jul15 == DateTok("MDYnc", "abbr", "lower", 7, 15, 2025)
D_Sep1 == DateTok("MDY", "full", "title", 9, 1, 2025)

\* the six labels in another order
HeaderPermuted ==
    <<Lbl("payment due date"), Lbl("minimum amount due"), Lbl("total amount due"),
      Lbl("credit limit"), Lbl("statement date"), Lbl("customer number")>>

\* five of the six labels: the credit limit is missing
HeaderMissingOne ==
    <<Lbl("customer number"), Lbl("statement date"),
      Lbl("total amount due"), Lbl("minimum amount due"), Lbl("payment due date")>>

HeaderishLines ==
    {HeaderLine, HeaderPermuted, HeaderMissingOne, <<Word("Statement")>>}

\* up to n lines that are or resemble the header, then a block line
HeaderCases(n) ==
    { h \o <<b>> :
        h \in SeqsUpTo(HeaderishLines, n),
        b \in {<<C_Card, D_Aug1, D_Aug28, M_100, M_5000, M_20000>>, <<M_100>>} }

\* the header, then a block line of up to n amounts and customer numbers
MoneyCases(n) ==
    { <<HeaderLine, l>> :
        l \in SeqsUpTo({C_Card, M_100, M_5000, M_20000, M_1234}, n)
               \cup {<<>>, <<M_5000Plain, M_5000>>, <<M_5000, C_Card, M_5000Plain, M_100>>,
                     <<M_2to53Plus1, M_2to53>>, <<M_2to53, M_2to53Plus1>>,
                     <<C_Card, M_2to53Plus1, M_2to53, M_100>>,
                     <<C_Card, M_100, M_2to53, M_2to53Plus1>>} }

\* the header, then a block line of up to n dates, with or without amounts
DateCases(n) ==
    { <<HeaderLine, l \o m>> :
        l \in SeqsUpTo({D_Aug1, D_Aug28, D_1Aug, D_Jul15}, n)
               \cup {<<>>, <<D_Sep1, D_Aug28>>, <<D_Aug1, D_28Sept>>},
        m \in {<<>>, <<M_100>>, <<M_100, M_5000>>} }

MaxCaptureLines == 3
MaxPad == 12

\* lines a block is made of: a blank line, two lines of fields, and two
\* lines that begin with a stop marker and hold a field
BlockLines ==
    { <<>>,
      <<C_Card, D_Aug1, M_100>>,
      <<D_Aug28, M_5000, M_20000>>,
      <<Word("##"), M_1234>>,
      <<Bar, Word("Previous"), D_Jul15>>,
      <<Word("##")>> }

\* a line of fields or nothing, the header, then up to n lines
CaptureCases(n) ==
    { pre \o <<HeaderLine>> \o ls :
        pre \in {<<>>, <<<<M_1234, D_Jul15>>>>},
        ls \in SeqsUpTo(BlockLines, n) }

Blanks(k) == [i \in 1..k |-> <<>>]

\* the header, k blank lines, a line of fields, j blank lines, a line of
\* fields, for k and j up to n
PaddedCases(n) ==
    { <<HeaderLine>> \o Blanks(k) \o <<<<C_Card, D_Aug1, M_100>>>>
                    \o Blanks(j) \o <<<<D_Aug28, M_5000, M_20000>>>> :
        k \in 0..n, j \in 0..n }

InitBlock ==
    /\ text \in {<<>>} \cup HeaderCases(MaxHeaderLines)
                \cup MoneyCases(MaxBlockToks) \cup DateCases(MaxDateToks)
                \cup CaptureCases(MaxCaptureLines) \cup PaddedCases(MaxPad)
    /\ pc = "block"
    /\ consulted = <<>>
    /\ result = None
    /\ MoneyIdle
    /\ NoCalls
    /\ ServicesIdle

\* m = extract_after_header(text)
HeaderBlockCall ==
    /\ pc = "block"
    /\ result' = extract_after_header(text)
    /\ pc' = "returned"
    /\ UNCHANGED <<text, consulted, mtok, mpc, mout, frames, serviceVars>>

NextBlock == HeaderBlockCall

SpecBlock == InitBlock /\ [][NextBlock]_vars

---------------------------------------------------------------------------
(* Properties of extract_fields, checked under Spec *)

Returned == pc = "done" /\ result.t = "record"

Raised == pc = "done" /\ result.t = "raise"

Consulted(s) == \E i \in 1..Len(consulted) : consulted[i] = s

\* the text satisfies the Strict Sequence grammar: each of the three
\* label-anchored patterns is found in it
StrictGrammar ==
    \A key \in PatternKeys : PatternSearch(Flat(text), key) # NoCapture

\* the text satisfies the Table-Row grammar
TableRowGrammar == TableRowSearch(text).matched

\* what Strategy C reads after the header line of the text
HeaderFound == HeaderIndex(text) # 0

BlockAfterHeader == Blob(CollectBlock(text, HeaderIndex(text) + 1, <<>>))

DatesOfBlock == UniqueDates(BlockAfterHeader)

AmountsOfBlock == MoneyDistinct(BlockAfterHeader, CustomerAt(BlockAfterHeader))

\* C1: the strategies are consulted in the order A, B, C; a record that is
\* returned is the record of the first strategy whose grammar the text
\* satisfies, so for a text that satisfies both the Strict Sequence and the
\* Table-Row grammars it is the Strict Sequence record, built after A alone
\* was consulted; B is consulted only when A did not match and C only when
\* neither A nor B matched.
C1_CascadeOrder ==
    /\ Len(consulted) <= 3
    /\ consulted = SubSeq(<<"A", "B", "C">>, 1, Len(consulted))
    /\ Returned =>
          result.source_layout =
             IF StrictGrammar THEN "string_strict_sequence"
             ELSE IF TableRowGrammar THEN "string_table_row"
             ELSE "table_row"
    /\ (Returned /\ StrictGrammar) => consulted = <<"A">>
    /\ Consulted("B") => ~StrictGrammar
    /\ Consulted("C") => ~StrictGrammar /\ ~TableRowGrammar

\* C1 witness: a text that satisfies both grammars was answered with the
\* Strict Sequence record, Strategy A alone having been consulted.
C1_Witness ==
    /\ Returned
    /\ StrictGrammar /\ TableRowGrammar
    /\ result.source_layout = "string_strict_sequence"
    /\ consulted = <<"A">>

\* C2: the only exception a call of extract_fields ends with is the terminal
\* failure raised after all three strategies were consulted; a date that
\* cannot be parsed, a header that is not found, a block without usable
\* fields never end the call with an exception of their own.
C2_FailuresAreLocal ==
    Raised => (result.exc = "CouldNotMatch" /\ consulted = <<"A", "B", "C">>)

\* C3: a record returned by Strategy A or Strategy B holds a decimal
\* total_amount_due, a decimal minimum_amount_due and a calendar
\* payment_due_date, none of them null.
C3_NoPartialCommit ==
    (Returned /\ result.source_layout \in {"string_strict_sequence", "string_table_row"}) =>
        /\ result.total_amount_due.t = "decimal"
        /\ result.minimum_amount_due.t = "decimal"
        /\ result.payment_due_date.t = "date"

\* C4: a call ends in Strategy A only if all three patterns are found in the
\* text; when one of them is not found, Strategy A leaves no record and no
\* exception, and Strategy B is consulted next.
C4_StrictNeedsAllThree ==
    /\ (pc = "done" /\ consulted = <<"A">>) => StrictGrammar
    /\ (Returned /\ result.source_layout = "string_strict_sequence") => StrictGrammar
    /\ (~StrictGrammar /\ consulted = <<"A">>) => (pc = "B" /\ result = None)
    /\ (~StrictGrammar /\ pc = "done") => (Len(consulted) >= 2 /\ consulted[2] = "B")

\* C4 witness: the total and the minimum payment are found in the text and
\* the due date is not; Strategy A has run, nothing is returned or raised and
\* Strategy B is next.
C4_Witness ==
    /\ PatternSearch(Flat(text), "total_balance") # NoCapture
    /\ PatternSearch(Flat(text), "min_payment") # NoCapture
    /\ PatternSearch(Flat(text), "due_date") = NoCapture
    /\ consulted = <<"A">>
    /\ pc = "B"
    /\ result = None

\* C5: every returned record is tagged strict_sequence when Strategy A
\* produced it, table_row when Strategy B did and header_block when
\* Strategy C did.
C5_LayoutTags ==
    Returned =>
        result.source_layout =
           CASE consulted = <<"A">> -> "strict_sequence"
             [] consulted = <<"A", "B">> -> "table_row"
             [] OTHER -> "header_block"

\* C6: extract_after_header gives a dict only if the payment due date or the
\* total amount due is populated from the block (two distinct dates, or two
\* distinct amounts, are found in it); when the header is found and neither
\* is populated it gives None, and extract_fields ends with its terminal
\* failure; a record of Strategy C is returned only from a dict.
C6_UsableFieldsOrFailure ==
    (pc = "done" /\ Consulted("C") /\ HeaderFound) =>
        /\ extract_after_header(text).t = "dict" =>
              \/ extract_after_header(text).payment_due_date # Str(EmptyStr)
              \/ extract_after_header(text).total_amount_due # Str(EmptyStr)
        /\ (Len(DatesOfBlock) < 2 /\ Len(AmountsOfBlock) < 2) =>
              /\ extract_after_header(text) = None
              /\ result = Raise("CouldNotMatch")
        /\ Returned => extract_after_header(text).t = "dict"

\* C6 witness: the header was found, the block under it holds one amount and
\* no date, and the call ended with the terminal failure.
C6_Witness ==
    /\ pc = "done"
    /\ consulted = <<"A", "B", "C">>
    /\ HeaderFound
    /\ Len(AmountsOfBlock) = 1
    /\ DatesOfBlock = <<>>
    /\ result = Raise("CouldNotMatch")

\* C7: when Strategy C reads a block with one distinct calendar date and at
\* least two distinct amounts, the call returns a record whose
\* statement_date is that date and whose payment_due_date is empty.
C7_SingleDateIsStatementDate ==
    (/\ pc = "done" /\ Consulted("C") /\ HeaderFound
     /\ Len(DatesOfBlock) = 1 /\ Len(AmountsOfBlock) >= 2) =>
        /\ Returned
        /\ result.statement_date \in
              {Str(DatesOfBlock[1]), parse_date_safe(DatesOfBlock[1])}
        /\ result.payment_due_date \in {None, Str(EmptyStr)}

\* the block of the end-to-end scenario under its header line
EndToEndText ==
    <<HeaderLine, <<C_Card, D_Aug1, D_Aug28, M_100, M_5000, M_20000>>>>

\* C8: in a record of Strategy C the dates are calendar dates or null, the
\* amounts decimals or null, the customer number a string or null; for the
\* end-to-end block the record holds 2025-08-01, 2025-08-28, 100.00,
\* 5000.00 and 20000.00.
C8_TypedFields ==
    (Returned /\ Consulted("C")) =>
        /\ result.statement_date.t \in {"date", "none"}
        /\ result.payment_due_date.t \in {"date", "none"}
        /\ result.credit_limit.t \in {"decimal", "none"}
        /\ result.total_amount_due.t \in {"decimal", "none"}
        /\ result.minimum_amount_due.t \in {"decimal", "none"}
        /\ result.customer_number \in {None} \cup {Str(C_Card)}
        /\ text = EndToEndText =>
              /\ result.statement_date = Date(2025, 8, 1)
              /\ result.payment_due_date = Date(2025, 8, 28)
              /\ result.minimum_amount_due = Dec(10000)
              /\ result.total_amount_due = Dec(500000)
              /\ result.credit_limit = Dec(2000000)

---------------------------------------------------------------------------
(* The money grammar as the specification words it (section 4.1), stated   *)
(* on the token's text by its decompositions, for the properties below     *)

HasChar(s, c) == \E i \in 1..Len(s) : s[i] = c

RECURSIVE NoSpaces(_)
NoSpaces(s) ==
    IF s = <<>> THEN <<>>
    ELSE IF Head(s) = " " THEN NoSpaces(Tail(s))
         ELSE <<Head(s)>> \o NoSpaces(Tail(s))

Parenthesised(s0) ==
    LET s == Strip(s0)
    IN  s # <<>> /\ s[1] \in {"(", "FWLP"} /\ s[Len(s)] \in {")", "FWRP"}

\* the token trimmed, and stripped of the parentheses that wrap it
TokenCore(s0) ==
    LET s == Strip(s0)
    IN  IF Parenthesised(s0) THEN Strip(SubSeq(s, 2, Len(s) - 1)) ELSE s

\* optional sign, optional currency marker
GrammarPrefix(p) ==
    LET q == NoSpaces(p)
    IN  \/ q = <<>>
        \/ Len(q) = 1 /\ q[1] \in {"-", "+", "PESO", "P", "p"}
        \/ Len(q) = 2 /\ q[1] \in {"-", "+"} /\ q[2] \in {"PESO", "P", "p"}

\* plain or correctly comma-grouped integer run
GrammarInt(n) ==
    LET commas == {i \in 1..Len(n) : n[i] = ","}
    IN  /\ n # <<>>
        /\ \A i \in 1..Len(n) : IsDigit(n[i]) \/ n[i] = ","
        /\ \/ commas = {}
           \/ /\ \E i \in commas : i \in 2..4 /\ \A j \in commas : i <= j
              /\ \A i \in commas :
                    /\ i + 3 <= Len(n)
                    /\ \A k \in (i + 1)..(i + 3) : IsDigit(n[k])
                    /\ (i + 4 <= Len(n) => n[i + 4] = ",")

\* optional fraction of one or two digits, optional CR/DR suffix
GrammarTail(u) ==
    \E f \in {0, 2, 3} :
        /\ f <= Len(u)
        /\ f > 0 => u[1] = "." /\ \A k \in 2..f : IsDigit(u[k])
        /\ Strip(SubSeq(u, f + 1, Len(u))) \in {<<>>, <<"C", "R">>, <<"D", "R">>}

MoneyGrammar(s) ==
    \E a \in 0..Len(s) : \E b \in a..Len(s) :
        /\ GrammarPrefix(SubSeq(s, 1, a))
        /\ GrammarInt(SubSeq(s, a + 1, b))
        /\ GrammarTail(SubSeq(s, b + 1, Len(s)))

Conforms(s0) == MoneyGrammar(TokenCore(s0))

ZeroMagnitude(s) == \A i \in 1..Len(s) : IsDigit(s[i]) => s[i] = "0"

NegativeMarked(s) == Parenthesised(s) \/ HasChar(s, "-") \/ HasChar(s, "C")

\* where the decimal point of the token is, past its end when it has none
PointAt(s) ==
    IF HasChar(s, ".") THEN CHOOSE i \in 1..Len(s) : s[i] = "." /\ \A j \in 1..(i - 1) : s[j] # "."
    ELSE Len(s) + 1

\* the digits of the integer run, grouping separators removed
IntegerDigits(s) == SelectSeq(SubSeq(s, 1, PointAt(s) - 1), IsDigit)

\* the digits of the fraction
FractionDigits(s) == SelectSeq(SubSeq(s, PointAt(s) + 1, Len(s)), IsDigit)

---------------------------------------------------------------------------
(* Properties of parse_money, checked under SpecMoney *)

C10_NoMatchIsNone ==
    (mpc = "done" /\ (Strip(mtok) = <<>> \/ ~Conforms(mtok))) => mout = None

\* C10 witness: a token with a misplaced grouping comma was answered with
\* None.
C10_Witness ==
    /\ mpc = "done"
    /\ mout = None
    /\ ~Conforms(mtok)
    /\ mtok = <<"1", "1", ",", "1", "1", ".", "5", "0">>

DigitChar(d) == CHOOSE c \in Digits : DigitVal(c) = d

RECURSIVE IntToDigits(_)
IntToDigits(n) ==
    IF n < 10 THEN <<DigitChar(n)>>
    ELSE IntToDigits(n \div 10) \o <<DigitChar(n % 10)>>

Abs(n) == IF n < 0 THEN 0 - n ELSE n

\* the canonical string of a value of two places: sign, integer digits,
\* point, two digits
CanonicalString(q) ==
    (IF q.cents < 0 THEN <<"-">> ELSE <<>>)
    \o IntToDigits(Abs(q.cents) \div 100)
    \o <<".", DigitChar((Abs(q.cents) % 100) \div 10), DigitChar(Abs(q.cents) % 10)>>

\* what the integer run and the fraction of the token amount to, in
\* hundredths
TokenMagnitude(s) ==
    100 * DigitsToInt(IntegerDigits(s))
    + (IF Len(FractionDigits(s)) = 1 THEN 10 * DigitsToInt(FractionDigits(s))
       ELSE DigitsToInt(FractionDigits(s)))

\* the properties C11 gives the value returned for a token
TwoPlaceValue ==
    /\ mout.t = "decimal"
    /\ mout.places = 2
    /\ Abs(mout.cents) = TokenMagnitude(mtok)
    /\ parse_money(CanonicalString(mout)) = mout
    /\ parse_money(mtok) = mout

CentsOfValue ==
    /\ mout.t = "int"
    /\ parse_money(mtok).t = "decimal"
    /\ mout.v * Pow10(parse_money(mtok).places) = 100 * parse_money(mtok).cents

\* C11: for every grammar-conforming token parse_money returns a value of
\* exactly two decimal places whose magnitude is the integer run of the
\* token (separators removed) plus its fraction; the canonical string of the
\* value parses to the same value, a second call gives the same value, and
\* with return_cents the result is 100 times the value, an integer.
C11_ExactTwoPlaceValue ==
    /\ (mpc = "done" /\ Conforms(mtok)) => TwoPlaceValue
    /\ (mpc = "cents" /\ Conforms(mtok)) => CentsOfValue

\* the same for the tokens of at most 26 integer digits
C11_WithinPrecision ==
    /\ (mpc = "done" /\ Conforms(mtok) /\ Len(IntegerDigits(mtok)) <= 26) => TwoPlaceValue
    /\ (mpc = "cents" /\ Conforms(mtok) /\ Len(IntegerDigits(mtok)) <= 26) => CentsOfValue

---------------------------------------------------------------------------
(* Properties of the date steps, checked under SpecDate *)

\* the token is written 'Month D, YYYY', 'Mon D, YYYY', 'D Mon YYYY' or
\* 'D Month YYYY', its month word a full name, an abbreviation or "Sept"
FourFormats(tok) ==
    tok.layout \in {"MDY", "DMY"} /\ tok.name \in {"full", "abbr", "sept"}

\* C12: parse_date gives every token of the four formats that names a day
\* of the calendar, whatever the case of its month word and "Sept"
\* included, the date of that day, so that tokens of one day are given one
\* date; so it does for every such token that DATE_ANY matches.
C12_FourFormatsParsed ==
    (mpc = "done" /\ ValidDay(mtok) /\ (FourFormats(mtok) \/ DATE_ANY(mtok))) =>
        mout = Date(mtok.y, mtok.m, mtok.d)

\* C18: a date string that Strategy C finds in its block is kept exactly
\* when parse_date parses it, and as the same calendar day: no string that
\* is kept makes parse_date fail, and no string that parse_date parses is
\* dropped.
C18_KeptIffDateNormalizerParses ==
    (mpc = "kept" /\ DATE_CAND(mtok)) =>
        /\ (mout # None) <=> (parse_date(mtok).t = "date")
        /\ mout # None => mout = parse_date(mtok)

\* where the bars of a line are
BarsOf(line) == {i \in 1..Len(line) : line[i] = Bar}

\* a delimited row of exactly four cells, the third a date of the grammar
FourCellRow(line) ==
    /\ Cardinality(BarsOf(line)) = 5
    /\ line[1] = Bar
    /\ line[Len(line)] = Bar
    /\ \E i \in BarsOf(line) :
          /\ Cardinality({j \in BarsOf(line) : j < i}) = 2
          /\ i + 2 \in BarsOf(line)
          /\ line[i + 1].k = "date"
          /\ DATE_ANY(line[i + 1])

\* C17: when Strategy B matches, the text holds a delimited row of exactly
\* four cells whose third cell is a date of the grammar, and the record
\* returned holds cells 1 and 2 of the matched row normalized as money and
\* cell 3 normalized as a date.
C17_OnlyFourCellRows ==
    (pc = "done" /\ consulted = <<"A", "B">>) =>
        /\ \E i \in 1..Len(text) : FourCellRow(text[i])
        /\ result.t = "record" =>
              /\ result.source_layout = "string_table_row"
              /\ result.total_amount_due = parse_money(TableRowSearch(text).total_due)
              /\ result.minimum_amount_due = parse_money(TableRowSearch(text).min_due)
              /\ result.payment_due_date = parse_date(TableRowSearch(text).payment_due)

---------------------------------------------------------------------------
(* Properties of extract_after_header, checked under SpecBlock *)

\* the labels a line holds
LabelsOf(line) == {line[i].l : i \in {j \in 1..Len(line) : line[j].k = "lbl"}}

\* the lines of the text that hold all six labels
QualifyingLines == {i \in 1..Len(text) : HeaderLabels \subseteq LabelsOf(text[i])}

\* C13: the header is the first line that holds all six labels, in whatever
\* order: the block read is the one under that line; a line without one of
\* the labels is not the header; when no line holds all six the call ends
\* with header-not-found, and only then.
C13_FirstHeaderAnyOrder ==
    pc = "returned" =>
        /\ (QualifyingLines = {} <=> result = Raise("HeaderNotFound"))
        /\ QualifyingLines # {} =>
              /\ HeaderIndex(text) = SetMin(QualifyingLines)
              /\ result = ReadBlock(Blob(CollectBlock(text, SetMin(QualifyingLines) + 1, <<>>)))

\* C13 witness: a line with five labels, then the six labels in another
\* order than the usual one, then the block: the block was read.
C13_Witness ==
    /\ pc = "returned"
    /\ Len(text) = 3
    /\ text[1] = HeaderMissingOne
    /\ text[2] = HeaderPermuted
    /\ result.t = "dict"
    /\ result.customer_number = Str(C_Card)

\* the money strings taken from the block under the header
TakenMoney ==
    IF HeaderIndex(text) = 0 THEN <<>>
    ELSE MoneyDistinct(BlockAfterHeader, CustomerAt(BlockAfterHeader))

\* the exact amount of a money string, in hundredths
AmountOf(tok) ==
    With(NumRunEnd(tok.s, 1), LAMBDA e :
        NatOfDigits(RemoveCommas(SubSeq(tok.s, 1, e - 1))
                    \o (IF e > Len(tok.s) THEN <<"0", "0">>
                        ELSE SubSeq(tok.s, e + 1, Len(tok.s)))))

NatLeq(a, b) == ~NatLess(b, a)

\* C14: when three distinct money strings are taken, the three fields are
\* these strings, each once, and minimum_amount_due <= total_amount_due <=
\* credit_limit by amount, whatever their order in the block.
C14_ThreeSortedByAmount ==
    (pc = "returned" /\ Len(TakenMoney) = 3) =>
        /\ result.t = "dict"
        /\ {result.minimum_amount_due, result.total_amount_due, result.credit_limit}
             = {Str(TakenMoney[i]) : i \in 1..3}
        /\ NatLeq(AmountOf(result.minimum_amount_due.s), AmountOf(result.total_amount_due.s))
        /\ NatLeq(AmountOf(result.total_amount_due.s), AmountOf(result.credit_limit.s))

\* the date strings of the block that parse_date_safe parses
ParsedDateStrings ==
    IF HeaderIndex(text) = 0 THEN {}
    ELSE {t \in Range(BlockAfterHeader) :
            t.k = "date" /\ DATE_CAND(t) /\ parse_date_safe(t) # None}

\* the calendar days they name, as yyyymmdd
ParsedDays == {DateOrd(t) : t \in ParsedDateStrings}

\* C15: in the dict of Strategy C statement_date names the earliest day
\* among the parsed date strings of the block, payment_due_date is set
\* exactly when they name two days or more and then names the latest, so
\* statement_date is strictly earlier than payment_due_date when both are
\* set, whatever the order and the format of the strings.
C15_EarliestAndLatestDay ==
    (pc = "returned" /\ result.t = "dict") =>
        /\ (ParsedDays = {}) <=> (result.statement_date = Str(EmptyStr))
        /\ (Cardinality(ParsedDays) >= 2) <=> (result.payment_due_date # Str(EmptyStr))
        /\ ParsedDays # {} =>
              /\ result.statement_date.s \in ParsedDateStrings
              /\ \A d \in ParsedDays : DateOrd(result.statement_date.s) <= d
        /\ Cardinality(ParsedDays) >= 2 =>
              /\ result.payment_due_date.s \in ParsedDateStrings
              /\ \A d \in ParsedDays : d <= DateOrd(result.payment_due_date.s)
              /\ DateOrd(result.statement_date.s) < DateOrd(result.payment_due_date.s)

\* C15 witness: the latest day comes first in the block, one day is written
\* twice in two formats, and the earliest day comes last.
C15_Witness ==
    /\ pc = "returned"
    /\ text = <<HeaderLine, <<D_Aug28, D_1Aug, D_Aug1, D_Jul15>>>>
    /\ result.t = "dict"
    /\ result.statement_date = Str(D_Jul15)
    /\ result.payment_due_date = Str(D_Aug28)

---------------------------------------------------------------------------
(* Properties of interleaved calls, checked under SpecCalls *)

MoneyFieldsSet ==
    {result.minimum_amount_due, result.total_amount_due, result.credit_limit}
    \ {Str(EmptyStr)}

\* C19: with fewer than three distinct money strings taken: with none the
\* three money fields are empty; with one it is minimum_amount_due and
\* credit_limit, and total_amount_due is empty; with two the smaller amount
\* is minimum_amount_due, the larger is credit_limit, and total_amount_due
\* is the smaller one.
C19_FewerThanThree ==
    (pc = "returned" /\ result.t = "dict" /\ Len(TakenMoney) < 3) =>
        /\ Len(TakenMoney) = 0 => MoneyFieldsSet = {}
        /\ Len(TakenMoney) = 1 =>
              /\ result.minimum_amount_due = Str(TakenMoney[1])
              /\ result.credit_limit = Str(TakenMoney[1])
              /\ result.total_amount_due = Str(EmptyStr)
        /\ Len(TakenMoney) = 2 =>
              /\ MoneyFieldsSet = {Str(TakenMoney[1]), Str(TakenMoney[2])}
              /\ result.minimum_amount_due # result.credit_limit
              /\ NatLeq(AmountOf(result.minimum_amount_due.s), AmountOf(result.credit_limit.s))
              /\ result.total_amount_due = result.minimum_amount_due

\* the first customer number of the block, 0 when it has none
FirstCustomer ==
    IF \E i \in 1..Len(BlockAfterHeader) : BlockAfterHeader[i].k = "cust"
    THEN SetMin({i \in 1..Len(BlockAfterHeader) : BlockAfterHeader[i].k = "cust"})
    ELSE 0

\* the money strings after the customer number, and those of the block
MoneyAfterCustomer ==
    MoneyStrictAll(SubSeq(BlockAfterHeader, FirstCustomer + 1, Len(BlockAfterHeader)))

MoneyOfBlock == MoneyStrictAll(BlockAfterHeader)

\* the part searched: the part after the customer number when there is one
\* and it holds three distinct strings, the whole block otherwise
MoneySearched ==
    IF FirstCustomer # 0 /\ Cardinality(Range(MoneyAfterCustomer)) >= 3
    THEN MoneyAfterCustomer ELSE MoneyOfBlock

\* where the strings of a sequence first occur
FirstOccurrences(q) == {i \in 1..Len(q) : \A j \in 1..(i - 1) : q[j] # q[i]}

\* its first three distinct strings
FirstThreeDistinct(q) ==
    {q[i] : i \in {k \in FirstOccurrences(q) :
                      Cardinality({j \in FirstOccurrences(q) : j < k}) < 3}}

\* C20: the money strings of the dict are the first three distinct money
\* strings, in document order, of the part of the block after the customer
\* number when that part holds three distinct ones, and of the whole block
\* when it holds fewer or there is no customer number; a string before the
\* customer number is used only in the second case.
C20_SearchAfterCustomerThenWiden ==
    (pc = "returned" /\ result.t = "dict") =>
        MoneyFieldsSet = {Str(m) : m \in FirstThreeDistinct(MoneySearched)}

\* C20 witness: an amount, the customer number, then three other amounts:
\* the amount before the customer number is not used.
C20_Witness ==
    /\ pc = "returned"
    /\ text = <<HeaderLine, <<M_1234, C_Card, M_20000, M_100, M_5000>>>>
    /\ result.t = "dict"
    /\ MoneyFieldsSet = {Str(M_100), Str(M_5000), Str(M_20000)}

\* the line begins with a stop marker, "| Previous" or "## "
BeginsWithStopMarker(line) ==
    \/ Len(line) >= 2 /\ line[1] = Bar /\ line[2] = Word("Previous")
    \/ Len(line) >= 2 /\ line[1] = Word("##")

\* the last line of the block under the header at line h: the line before
\* the first stop marker line, the twelfth line after the header, or the
\* last line of the text, whichever comes first
LastBlockLine(h) ==
    SetMin({Len(text), h + 12}
           \cup {i - 1 : i \in {j \in (h + 1)..Len(text) : BeginsWithStopMarker(text[j])}})

\* C21: the block is made of the lines after the header, in order, up to
\* the line before the first one that begins with a stop marker and of 12
\* lines at most, blank lines counted and never ending it; the fields are
\* those read from these lines alone, whatever the other lines hold.
C21_BlockCapture ==
    (pc = "returned" /\ QualifyingLines # {}) =>
        /\ CollectBlock(text, SetMin(QualifyingLines) + 1, <<>>)
             = SubSeq(text, SetMin(QualifyingLines) + 1,
                      LastBlockLine(SetMin(QualifyingLines)))
        /\ result = extract_after_header(
                        <<HeaderLine>> \o SubSeq(text, SetMin(QualifyingLines) + 1,
                                                 LastBlockLine(SetMin(QualifyingLines))))

\* C21 witness: fields before the header, then under it a blank line, a
\* line of fields and a stop marker line that holds an amount: the fields
\* returned are those of the one line of fields between.
C21_Witness ==
    /\ pc = "returned"
    /\ text = <<<<M_1234, D_Jul15>>, HeaderLine, <<>>,
                <<D_Aug28, M_5000, M_20000>>, <<Word("##"), M_1234>>>>
    /\ result.t = "dict"
    /\ result.statement_date = Str(D_Aug28)
    /\ result.payment_due_date = Str(EmptyStr)
    /\ MoneyFieldsSet = {Str(M_5000), Str(M_20000)}

\* C21 witness of the maximum: twelve blank lines under the header, then
\* the lines of fields, which are not read: nothing is returned.
C21_WitnessMaximum ==
    /\ pc = "returned"
    /\ Len(text) = 15
    /\ \A i \in 2..13 : text[i] = <<>>
    /\ text[14] = <<C_Card, D_Aug1, M_100>>
    /\ result = None

---------------------------------------------------------------------------
(* utils/bill_parser.py: extract_due_and_amount                            *)
(*                                                                         *)
(* A line is given by what the regular expressions and the date parser of  *)
(* the source find in it: kw, the keyword lists of which some pattern      *)
(* matches the line; amount, the number of the first AMOUNT_RX match (in   *)
(* hundredths, AMOUNT_NUM allows no or two decimals) or None; currency,    *)
(* whether CURRENCY_SYMS matches; date, what parse_date_any returns.       *)
(* Two lines are the same string when the records are equal.               *)

DueLine(kw, amount, currency, date) ==
    [kw |-> kw, amount |-> amount, currency |-> currency, date |-> date]

\* a Python float that is a whole number of hundredths
Float(c) == [t |-> "float", cents |-> c]

\* lines 142-147
match_any(line, patterns) == patterns \in line.kw

\* lines 115-123
normalize_amount(s) == s.amount

\* lines 125-135
parse_date_any(s) == s.date

\* line 195: re.search(CURRENCY_SYMS, line)
CurrencySearch(line) == line.currency

\* lines 137-140, with the indices of lines counted from 1
find_nearby(lines, idx, window) ==
    SubSeq(lines,
           IF idx - window > 1 THEN idx - window ELSE 1,
           IF idx + window < Len(lines) THEN idx + window ELSE Len(lines))

\* lines 169-175: the first line of the window, other than the keyword line,
\* in which a date is found
RECURSIVE NearbyDate(_, _, _)
NearbyDate(ctxs, line, k) ==
    IF k > Len(ctxs) THEN None
    ELSE IF ctxs[k] = line THEN NearbyDate(ctxs, line, k + 1)
    ELSE IF parse_date_any(ctxs[k]) # None THEN parse_date_any(ctxs[k])
    ELSE NearbyDate(ctxs, line, k + 1)

\* lines 160-177: pass 1, from line i on
RECURSIVE DueDatePass(_, _)
DueDatePass(lines, i) ==
    IF i > Len(lines) THEN None
    ELSE IF ~match_any(lines[i], "DATE_KEYWORDS") THEN DueDatePass(lines, i + 1)
    ELSE IF parse_date_any(lines[i]) # None THEN parse_date_any(lines[i])
    ELSE IF NearbyDate(find_nearby(lines, i, 2), lines[i], 1) # None
         THEN NearbyDate(find_nearby(lines, i, 2), lines[i], 1)
    ELSE DueDatePass(lines, i + 1)

\* a candidate (amount, score, context); the context is the line, or the
\* two lines that the source joins with " | "
Candidate(amount, score, context) ==
    [amount |-> amount, score |-> score, context |-> context]

\* lines 190-197: the candidate of a line that has no minimum-due keyword
OwnCandidate(line) ==
    IF normalize_amount(line) = None THEN <<>>
    ELSE <<Candidate(normalize_amount(line),
                     (IF match_any(line, "AMOUNT_KEYWORDS_PRIMARY") THEN 3 ELSE 2)
                        + (IF CurrencySearch(line) THEN 1 ELSE 0),
                     <<line>>)>>

\* lines 199-203: the amount on the line after a primary keyword
LookAheadCandidate(lines, i) ==
    IF /\ match_any(lines[i], "AMOUNT_KEYWORDS_PRIMARY")
       /\ i + 1 <= Len(lines)
       /\ normalize_amount(lines[i + 1]) # None
    THEN <<Candidate(normalize_amount(lines[i + 1]), 4, <<lines[i], lines[i + 1]>>)>>
    ELSE <<>>

\* lines 180-203: pass 2, from line i on
RECURSIVE Candidates(_, _)
Candidates(lines, i) ==
    IF i > Len(lines) THEN <<>>
    ELSE IF match_any(lines[i], "AMOUNT_KEYWORDS_AVOID")
         THEN (IF normalize_amount(lines[i]) # None
               THEN <<Candidate(normalize_amount(lines[i]), 1, <<lines[i]>>)>>
               ELSE <<>>)
              \o Candidates(lines, i + 1)
    ELSE OwnCandidate(lines[i]) \o LookAheadCandidate(lines, i)
             \o Candidates(lines, i + 1)

\* the order of a sort by the amount first
KeyGreater_AmountFirst(a, b) ==
    \/ a.amount.cents > b.amount.cents
    \/ a.amount = b.amount /\ a.score > b.score

\* line 207: the key (score, amount), compared as Python compares tuples
KeyGreater(a, b) ==
    \/ a.score > b.score
    \/ a.score = b.score /\ a.amount.cents > b.amount.cents

\* line 207: list.sort is stable, with reverse=True too: c, the later
\* element, goes behind every element whose key is not smaller
InsertDescending(sorted, c) ==
    LET n == Cardinality({k \in 1..Len(sorted) : ~KeyGreater(c, sorted[k])})
    IN  SubSeq(sorted, 1, n) \o <<c>> \o SubSeq(sorted, n + 1, Len(sorted))

RECURSIVE SortCandidates(_, _)
SortCandidates(cands, sorted) ==
    IF cands = <<>> THEN sorted
    ELSE SortCandidates(Tail(cands), InsertDescending(sorted, Head(cands)))

\* line 212: f"{amount_value:.2f}", the string of the amount with two decimals
Fixed2(amount) ==
    [t |-> "str", units |-> amount.cents \div 100, decimals |-> amount.cents % 100]

\* lines 149-214
extract_due_and_amount(lines) ==
    With(SortCandidates(Candidates(lines, 1), <<>>), LAMBDA candidates :
        [due_date |-> DueDatePass(lines, 1),
         amount |-> IF candidates # <<>> THEN Fixed2(candidates[1].amount) ELSE None,
         amount_context |-> IF candidates # <<>> THEN candidates[1].context ELSE None])

\* the lines of the bills that are read
MaxDueLines == 3

DueLines ==
    { DueLine({}, None, FALSE, None),
      DueLine({"AMOUNT_KEYWORDS_PRIMARY"}, None, FALSE, None),
      DueLine({"AMOUNT_KEYWORDS_PRIMARY"}, Float(1200000), FALSE, None),
      DueLine({"AMOUNT_KEYWORDS_PRIMARY"}, Float(50000), TRUE, None),
      DueLine({"AMOUNT_KEYWORDS_AVOID", "AMOUNT_KEYWORDS_PRIMARY"}, Float(50000), FALSE, None),
      DueLine({"AMOUNT_KEYWORDS_AVOID"}, Float(5000000), TRUE, None),
      DueLine({"AMOUNT_KEYWORDS_AVOID"}, None, FALSE, None),
      DueLine({}, Float(50000), FALSE, None),
      DueLine({}, Float(5000000), TRUE, None),
      DueLine({"DATE_KEYWORDS"}, None, FALSE, None),
      DueLine({"DATE_KEYWORDS"}, Float(1500), FALSE, Str("2025-10-15")),
      DueLine({}, Float(1000), FALSE, Str("2025-10-15")),
      DueLine({"DATE_KEYWORDS", "AMOUNT_KEYWORDS_PRIMARY"}, Float(1200000), TRUE, Str("2025-11-01")) }

InitDue ==
    /\ dueamt \in { [lines |-> ls, pc |-> "call", out |-> None] :
                        ls \in {<<>>} \cup SeqsUpTo(DueLines, MaxDueLines) }
    /\ tm = <<>> /\ fetch = <<>> /\ rt = <<>> /\ tracker = <<>> /\ api = <<>>
    /\ text = <<>> /\ pc = "idle" /\ consulted = <<>> /\ result = None
    /\ MoneyIdle
    /\ NoCalls

ExtractDueAndAmountCall ==
    /\ dueamt.pc = "call"
    /\ dueamt' = [dueamt EXCEPT !.pc = "returned",
                                !.out = extract_due_and_amount(dueamt.lines)]
    /\ UNCHANGED <<parserVars, tm, fetch, rt, tracker, api>>

NextDue == ExtractDueAndAmountCall

SpecDue == InitDue /\ [][NextDue]_vars

---------------------------------------------------------------------------
(* Properties of extract_due_and_amount, under SpecDue *)

DueReturned == dueamt # <<>> /\ dueamt.pc = "returned"

\* the candidates that the lines of the call yield
CandidatesOfCall == Range(Candidates(dueamt.lines, 1))

\* a candidate made by the look-ahead: its context is the two joined lines
IsLookAhead(c) == Len(c.context) = 2

\* C22: the amount returned is that of a candidate maximal in the order
\* (score, amount): no candidate has a higher score and, among those of the
\* highest score, none has a larger amount; the amount is None exactly
\* when no line yields a candidate; a look-ahead candidate has a score at
\* least as high as every other candidate.
C22_MaximalCandidateReturned ==
    DueReturned =>
        /\ (dueamt.out.amount = None) <=> (CandidatesOfCall = {})
        /\ CandidatesOfCall # {} =>
             \E c \in CandidatesOfCall :
                /\ dueamt.out.amount = Fixed2(c.amount)
                /\ dueamt.out.amount_context = c.context
                /\ \A d \in CandidatesOfCall :
                      /\ d.score <= c.score
                      /\ d.score = c.score => d.amount.cents <= c.amount.cents
        /\ \A la \in CandidatesOfCall : IsLookAhead(la) =>
             \A d \in CandidatesOfCall : d.score <= la.score

\* a call in which the score decides against the larger amount, and one in
\* which the amount decides among candidates of the same score
C22_Witness ==
    /\ DueReturned
    /\ \E c, d \in CandidatesOfCall :
          /\ dueamt.out.amount = Fixed2(c.amount)
          /\ d.score < c.score /\ d.amount.cents > c.amount.cents
    /\ \E c, d \in CandidatesOfCall :
          /\ dueamt.out.amount = Fixed2(c.amount)
          /\ d.score = c.score /\ d.amount.cents < c.amount.cents
          /\ IsLookAhead(c) # IsLookAhead(d)

\* the line a candidate's amount was read from: the last of its context
AmountLine(context) == context[Len(context)]

\* the lines without a minimum-due keyword that yield a candidate
OtherAmountLines ==
    { i \in 1..Len(dueamt.lines) :
        /\ ~match_any(dueamt.lines[i], "AMOUNT_KEYWORDS_AVOID")
        /\ normalize_amount(dueamt.lines[i]) # None }

\* C23: an amount read from a line with a minimum-due keyword is returned
\* only when no candidate from any other line exists, also when that line
\* directly follows a line with a primary keyword.
C23_MinimumDueOnlyWithoutOthers ==
    (DueReturned /\ dueamt.out.amount # None /\ OtherAmountLines # {}) =>
        ~match_any(AmountLine(dueamt.out.amount_context), "AMOUNT_KEYWORDS_AVOID")

---------------------------------------------------------------------------
(* services/jobs.py: TaskManager                                           *)
(*                                                                         *)
(* tm.infos is the heap of TaskInfo objects in the order of creation, each *)
(* with the asyncio.Task of its runner: task is "scheduled" from           *)
(* create_task until the event loop runs the runner's first step,          *)
(* "awaiting" while the runner waits for job_factory(info), "finished"     *)
(* once the task is done; must_cancel says that Task.cancel() was called   *)
(* and accepted.  tm.tasks is the dict _tasks, from a task_id to the index *)
(* of its TaskInfo (0: no entry).  A caller is a coroutine that calls      *)
(* get_or_create or cancel: it takes the lock, runs the body and releases. *)

MaxJobs == 3

TaskIds == {"a", "b"}
Callers == {"c1", "c2"}

\* lines 6-13 and line 39: TaskInfo(task_id=task_id, status="running", progress=0.0)
TaskInfo(task_id) ==
    [task_id |-> task_id, progress |-> 0, status |-> "running",
     result |-> None, error |-> None,
     task |-> "scheduled", must_cancel |-> FALSE]

\* a test of the status that takes a running job for a finished one
Ongoing_PendingOnly == {"pending"}

\* line 34
Ongoing == {"pending", "running"}

\* asyncio.Task.done()
TaskDone(info) == info.task = "finished"

InitTasks ==
    /\ tm = [infos |-> <<>>,
             tasks |-> [id \in TaskIds |-> 0],
             lock |-> "free",
             callers |-> [c \in Callers |->
                            [pc |-> "idle", op |-> "none", id |-> "none", ret |-> None]]]
    /\ dueamt = <<>> /\ fetch = <<>> /\ rt = <<>> /\ tracker = <<>> /\ api = <<>>
    /\ ExtractIdle
    /\ MoneyIdle
    /\ NoCalls

\* lines 32 and 60: async with self._lock, entered by a caller of
\* get_or_create or of cancel
AcquireLock(c, op, id) ==
    /\ tm.callers[c].pc = "idle"
    /\ tm.lock = "free"
    /\ op = "get_or_create" => Len(tm.infos) < MaxJobs
    /\ tm' = [tm EXCEPT !.lock = c,
                        !.callers[c] = [pc |-> "locked", op |-> op, id |-> id, ret |-> None]]
    /\ UNCHANGED <<parserVars, dueamt, fetch, rt, tracker, api>>

\* lines 33-57: the body of get_or_create, and the release of the lock
GetOrCreateBody(c) ==
    /\ tm.callers[c].pc = "locked"
    /\ tm.callers[c].op = "get_or_create"
    /\ LET id == tm.callers[c].id
           info == tm.tasks[id]
       IN  IF info # 0 /\ tm.infos[info].status \in Ongoing
           THEN tm' = [tm EXCEPT !.lock = "free",
                                 !.callers[c].pc = "idle",
                                 !.callers[c].ret = PyInt(info)]
           ELSE tm' = [tm EXCEPT !.infos = Append(@, TaskInfo(id)),
                                 !.tasks[id] = Len(tm.infos) + 1,
                                 !.lock = "free",
                                 !.callers[c].pc = "idle",
                                 !.callers[c].ret = PyInt(Len(tm.infos) + 1)]
    /\ UNCHANGED <<parserVars, dueamt, fetch, rt, tracker, api>>

\* lines 60-65: the body of cancel, and the release of the lock
CancelBody(c) ==
    /\ tm.callers[c].pc = "locked"
    /\ tm.callers[c].op = "cancel"
    /\ LET id == tm.callers[c].id
           info == tm.tasks[id]
       IN  IF info = 0 \/ TaskDone(tm.infos[info])
           THEN tm' = [tm EXCEPT !.lock = "free",
                                 !.callers[c].pc = "idle",
                                 !.callers[c].ret = [t |-> "bool", v |-> FALSE]]
           ELSE tm' = [tm EXCEPT !.infos[info].must_cancel = TRUE,
                                 !.lock = "free",
                                 !.callers[c].pc = "idle",
                                 !.callers[c].ret = [t |-> "bool", v |-> TRUE]]
    /\ UNCHANGED <<parserVars, dueamt, fetch, rt, tracker, api>>

\* lines 42-45: the first step of the runner, up to the await
RunnerStart(i) ==
    /\ i \in 1..Len(tm.infos)
    /\ tm.infos[i].task = "scheduled"
    /\ ~tm.infos[i].must_cancel
    /\ tm' = [tm EXCEPT !.infos[i].status = "running", !.infos[i].task = "awaiting"]
    /\ UNCHANGED <<parserVars, dueamt, fetch, rt, tracker, api>>

\* a task cancelled before its first step: the event loop throws
\* CancelledError into the coroutine that has not started, so that no
\* line of the runner is executed, the except clause of line 49 neither
RunnerCancelledUnstarted(i) ==
    /\ i \in 1..Len(tm.infos)
    /\ tm.infos[i].task = "scheduled"
    /\ tm.infos[i].must_cancel
    /\ tm' = [tm EXCEPT !.infos[i].task = "finished"]
    /\ UNCHANGED <<parserVars, dueamt, fetch, rt, tracker, api>>

\* lines 45-48: job_factory(info) returns
RunnerDone(i) ==
    /\ i \in 1..Len(tm.infos)
    /\ tm.infos[i].task = "awaiting"
    /\ ~tm.infos[i].must_cancel
    /\ tm' = [tm EXCEPT !.infos[i].result = Str("result"),
                        !.infos[i].progress = 100,
                        !.infos[i].status = "done",
                        !.infos[i].task = "finished"]
    /\ UNCHANGED <<parserVars, dueamt, fetch, rt, tracker, api>>

\* lines 52-54: job_factory(info) raises an Exception
RunnerError(i) ==
    /\ i \in 1..Len(tm.infos)
    /\ tm.infos[i].task = "awaiting"
    /\ ~tm.infos[i].must_cancel
    /\ tm' = [tm EXCEPT !.infos[i].status = "error",
                        !.infos[i].error = Str("error"),
                        !.infos[i].task = "finished"]
    /\ UNCHANGED <<parserVars, dueamt, fetch, rt, tracker, api>>

\* lines 49-51: CancelledError is raised at the await
RunnerCancelled(i) ==
    /\ i \in 1..Len(tm.infos)
    /\ tm.infos[i].task = "awaiting"
    /\ tm.infos[i].must_cancel
    /\ tm' = [tm EXCEPT !.infos[i].status = "cancelled",
                        !.infos[i].task = "finished"]
    /\ UNCHANGED <<parserVars, dueamt, fetch, rt, tracker, api>>

\* the steps of the event loop on the runner of TaskInfo i
RunnerStep(i) ==
    \/ RunnerStart(i)
    \/ RunnerCancelledUnstarted(i)
    \/ RunnerDone(i)
    \/ RunnerError(i)
    \/ RunnerCancelled(i)

NextTasks ==
    \/ \E c \in Callers, op \in {"get_or_create", "cancel"}, id \in TaskIds :
          AcquireLock(c, op, id)
    \/ \E c \in Callers : GetOrCreateBody(c)
    \/ \E c \in Callers : CancelBody(c)
    \/ \E i \in 1..MaxJobs : RunnerStep(i)

SpecTasks == InitTasks /\ [][NextTasks]_vars

\* the event loop runs every task that is ready: a runner that can take a
\* step takes it, and a caller that holds the lock runs the body and
\* releases it.  That a caller calls is left to the caller.
SpecTasksFair ==
    /\ SpecTasks
    /\ \A i \in 1..MaxJobs : WF_vars(RunnerStep(i))
    /\ \A c \in Callers : WF_vars(GetOrCreateBody(c) \/ CancelBody(c))

---------------------------------------------------------------------------
(* Properties of TaskManager, under SpecTasks and SpecTasksFair *)

\* the jobs of a task_id whose asyncio task is not done
JobsRunning(id) ==
    { i \in 1..Len(tm.infos) : tm.infos[i].task_id = id /\ ~TaskDone(tm.infos[i]) }

AtMostOneJobRunning == \A id \in TaskIds : Cardinality(JobsRunning(id)) <= 1

\* a step in which caller c returns from get_or_create
GetOrCreateReturns(c) ==
    /\ tm.callers[c].pc = "locked"
    /\ tm.callers[c].op = "get_or_create"
    /\ tm'.callers[c].pc = "idle"

\* what a return of get_or_create may do, given the registered TaskInfo
GetOrCreateStep(c) ==
    LET id == tm.callers[c].id
        registered == tm.tasks[id]
    IN  IF registered # 0 /\ tm.infos[registered].status \in {"pending", "running"}
        THEN /\ tm'.infos = tm.infos
             /\ tm'.tasks = tm.tasks
             /\ tm'.callers[c].ret = PyInt(registered)
        ELSE /\ registered # 0 =>
                  tm.infos[registered].status \in {"done", "error", "cancelled"}
             /\ Len(tm'.infos) = Len(tm.infos) + 1
             /\ tm'.infos[Len(tm'.infos)].task_id = id

\* C24: while the registered TaskInfo is pending or running, get_or_create
\* schedules no new job and returns that same TaskInfo; at most one job per
\* task_id is running at any time; a new job is scheduled only by a call
\* that finds no TaskInfo for the id or one that is done, error or cancelled.
C24_OneJobPerTaskId ==
    /\ []AtMostOneJobRunning
    /\ [][ /\ \A c \in Callers : GetOrCreateReturns(c) => GetOrCreateStep(c)
           /\ Len(tm'.infos) # Len(tm.infos) => \E c \in Callers : GetOrCreateReturns(c)
         ]_vars

\* two callers were given the same TaskInfo of a running job, the second
\* job of its task_id, scheduled after the first one had finished
C24_Witness ==
    /\ tm # <<>>
    /\ \E i, j \in 1..Len(tm.infos) :
          /\ i < j
          /\ tm.infos[i].task_id = tm.infos[j].task_id
          /\ tm.infos[j].task = "awaiting"
          /\ \A c \in Callers :
                tm.callers[c].pc = "idle" /\ tm.callers[c].ret = PyInt(j)

\* a step in which caller c returns from cancel
CancelReturns(c) ==
    /\ tm.callers[c].pc = "locked"
    /\ tm.callers[c].op = "cancel"
    /\ tm'.callers[c].pc = "idle"

\* cancel returns False exactly for an unknown task_id and for a finished
\* job, and then changes nothing
CancelStep(c) ==
    LET id == tm.callers[c].id
        registered == tm.tasks[id]
    IN  IF registered = 0 \/ TaskDone(tm.infos[registered])
        THEN /\ tm'.callers[c].ret = [t |-> "bool", v |-> FALSE]
             /\ tm'.infos = tm.infos
             /\ tm'.tasks = tm.tasks
        ELSE tm'.callers[c].ret = [t |-> "bool", v |-> TRUE]

\* cancel has returned True for the job of TaskInfo i
CancelAccepted(i) == i <= Len(tm.infos) /\ tm.infos[i].must_cancel

StatusIs(i, status) == i <= Len(tm.infos) /\ tm.infos[i].status = status

\* C25: after cancel has returned True the status eventually becomes
\* 'cancelled', at whatever point of the job's life the cancel arrives, also
\* before the runner's first step; cancel returns False and changes nothing
\* for an unknown task_id and for a job that has finished.
C25_CancelLeadsToCancelled ==
    /\ \A i \in 1..MaxJobs : CancelAccepted(i) ~> StatusIs(i, "cancelled")
    /\ [][\A c \in Callers : CancelReturns(c) => CancelStep(c)]_vars

---------------------------------------------------------------------------
(* jobs/fetch_bills_job.py: process_source and process_single_bill, with   *)
(* bill_exists and db_insert_bill of db/database.py                        *)
(*                                                                         *)
(* fetch.bills is the table bills, fetch.last_run the row of the source in *)
(* the table last_run, fetch.found the list that extract_bills returns,    *)
(* given by the sent_date of each bill.  Every run_blocking is an await:   *)
(* the pc of a task names the blocking call it is waiting for, and the     *)
(* call's effect on the database happens when the call completes.          *)

MaxBills == 3

\* line 127: asyncio.Semaphore(5)
BillSemaphore == 5

SourceName == "meralco"
SentDates == {"d1", "d2"}

\* a row of the table bills (database.py lines 12-27), id from AUTOINCREMENT
BillRow(id, name, sent_date, status, paid_at) ==
    [id |-> id, name |-> name, sent_date |-> sent_date,
     status |-> status, paid_at |-> paid_at]

\* database.py lines 107-117
bill_exists(bills, item) ==
    \E k \in 1..Len(bills) :
        bills[k].name = item.name /\ bills[k].sent_date = item.sent_date

\* database.py lines 119-139; paid_at is the clock's time for a paid bill
db_insert_bill(bills, item, utcnow) ==
    Append(bills, BillRow(Len(bills) + 1, item.name, item.sent_date, item.status,
                          IF item.status = Str("paid") THEN PyInt(utcnow) ELSE None))

\* lines 67-78: the record that process_single_bill inserts
BillRecord(value) ==
    [name |-> value.name, sent_date |-> value.sent_date, status |-> Str("unpaid")]

InitFetch ==
    /\ fetch \in
         { [bills |-> stored,
            last_run |-> lr,
            found |-> found,
            pc |-> "start",
            tasks |-> <<>>,
            sem |-> 0] :
              stored \in {<<>>, <<BillRow(1, SourceName, "d1", Str("unpaid"), None)>>},
              lr \in {None, Str("today"), Str("last week")},
              found \in {<<>>} \cup SeqsUpTo(SentDates, MaxBills) }
    /\ dueamt = <<>> /\ tm = <<>> /\ rt = <<>> /\ tracker = <<>> /\ api = <<>>
    /\ ExtractIdle
    /\ MoneyIdle
    /\ NoCalls

\* lines 88-100: the source was fetched less than a day ago
SkipSource ==
    /\ fetch.pc = "start"
    /\ fetch.last_run = Str("today")
    /\ fetch' = [fetch EXCEPT !.pc = "returned"]
    /\ UNCHANGED <<parserVars, dueamt, tm, rt, tracker, api>>

\* lines 104-122: a task for every bill found, then gather
FanOut ==
    /\ fetch.pc = "start"
    /\ fetch.last_run # Str("today")
    /\ fetch' = [fetch EXCEPT
           !.tasks = [k \in 1..Len(fetch.found) |->
                        [value |-> [name |-> SourceName, sent_date |-> fetch.found[k]],
                         pc |-> "created"]],
           !.pc = IF fetch.found = <<>> THEN "returned" ELSE "gather"]
    /\ UNCHANGED <<parserVars, dueamt, tm, rt, tracker, api>>

\* lines 48-50: the semaphore is taken and bill_exists is called
EnterSemaphore(t) ==
    /\ fetch.pc = "gather"
    /\ t \in 1..Len(fetch.tasks)
    /\ fetch.tasks[t].pc = "created"
    /\ fetch.sem < BillSemaphore
    /\ fetch' = [fetch EXCEPT !.sem = @ + 1, !.tasks[t].pc = "bill_exists"]
    /\ UNCHANGED <<parserVars, dueamt, tm, rt, tracker, api>>

\* lines 50-55: bill_exists returns; the task returns or goes on to extract
BillExistsReturns(t) ==
    /\ fetch.pc = "gather"
    /\ t \in 1..Len(fetch.tasks)
    /\ fetch.tasks[t].pc = "bill_exists"
    /\ IF bill_exists(fetch.bills, fetch.tasks[t].value)
       THEN fetch' = [fetch EXCEPT !.sem = @ - 1, !.tasks[t].pc = "done"]
       ELSE fetch' = [fetch EXCEPT !.tasks[t].pc = "extract_bill_fields"]
    /\ UNCHANGED <<parserVars, dueamt, tm, rt, tracker, api>>

\* lines 55-79: extract_bill_fields_async returns fields, returns nothing,
\* or raises after its retries
ExtractReturns(t, outcome) ==
    /\ fetch.pc = "gather"
    /\ t \in 1..Len(fetch.tasks)
    /\ fetch.tasks[t].pc = "extract_bill_fields"
    /\ fetch' = [fetch EXCEPT
           !.sem = IF outcome = "raises" THEN @ - 1 ELSE @,
           !.tasks[t].pc = CASE outcome = "fields" -> "db_insert_bill"
                             [] outcome = "nothing" -> "last_run"
                             [] outcome = "raises" -> "raised"]
    /\ UNCHANGED <<parserVars, dueamt, tm, rt, tracker, api>>

\* lines 79-80: db_insert_bill has inserted the row
InsertReturns(t) ==
    /\ fetch.pc = "gather"
    /\ t \in 1..Len(fetch.tasks)
    /\ fetch.tasks[t].pc = "db_insert_bill"
    /\ fetch' = [fetch EXCEPT
           !.bills = db_insert_bill(@, BillRecord(fetch.tasks[t].value), 0),
           !.tasks[t].pc = "last_run"]
    /\ UNCHANGED <<parserVars, dueamt, tm, rt, tracker, api>>

\* lines 59-64 and 80-85: insert_or_update_last_run has written the row
LastRunReturns(t) ==
    /\ fetch.pc = "gather"
    /\ t \in 1..Len(fetch.tasks)
    /\ fetch.tasks[t].pc = "last_run"
    /\ fetch' = [fetch EXCEPT !.last_run = Str("today"),
                              !.sem = @ - 1,
                              !.tasks[t].pc = "done"]
    /\ UNCHANGED <<parserVars, dueamt, tm, rt, tracker, api>>

\* line 122: every task has returned
GatherReturns ==
    /\ fetch.pc = "gather"
    /\ \A t \in 1..Len(fetch.tasks) : fetch.tasks[t].pc = "done"
    /\ fetch' = [fetch EXCEPT !.pc = "returned"]
    /\ UNCHANGED <<parserVars, dueamt, tm, rt, tracker, api>>

\* line 122 and lines 134-140: a task has raised; gather raises, the run
\* ends and asyncio.run cancels the tasks that are left.  A blocking call
\* that is under way runs to its end in its thread.
GatherRaises ==
    /\ fetch.pc = "gather"
    /\ \E t \in 1..Len(fetch.tasks) : fetch.tasks[t].pc = "raised"
    /\ LET inserting == { t \in 1..Len(fetch.tasks) : fetch.tasks[t].pc = "db_insert_bill" }
           RECURSIVE Inserted(_, _)
           Inserted(bills, ts) ==
               IF ts = {} THEN bills
               ELSE LET t == SetMin(ts)
                    IN  Inserted(db_insert_bill(bills, BillRecord(fetch.tasks[t].value), 0),
                                 ts \ {t})
       IN  fetch' = [fetch EXCEPT
               !.bills = Inserted(@, inserting),
               !.last_run = IF \E t \in 1..Len(fetch.tasks) : fetch.tasks[t].pc = "last_run"
                            THEN Str("today") ELSE @,
               !.sem = 0,
               !.tasks = [t \in 1..Len(fetch.tasks) |->
                            IF fetch.tasks[t].pc \in {"done", "raised"}
                            THEN fetch.tasks[t]
                            ELSE [fetch.tasks[t] EXCEPT !.pc = "cancelled"]],
               !.pc = "raised"]
    /\ UNCHANGED <<parserVars, dueamt, tm, rt, tracker, api>>

NextFetch ==
    \/ SkipSource
    \/ FanOut
    \/ \E t \in 1..MaxBills : EnterSemaphore(t)
    \/ \E t \in 1..MaxBills : BillExistsReturns(t)
    \/ \E t \in 1..MaxBills, outcome \in {"fields", "nothing", "raises"} :
          ExtractReturns(t, outcome)
    \/ \E t \in 1..MaxBills : InsertReturns(t)
    \/ \E t \in 1..MaxBills : LastRunReturns(t)
    \/ GatherReturns
    \/ GatherRaises

SpecFetch == InitFetch /\ [][NextFetch]_vars

---------------------------------------------------------------------------
(* Properties of the fetch job, under SpecFetch *)

\* C26: after any run of the fetch job the table bills holds at most one
\* row for each pair (name, sent_date): the bill_exists check followed by
\* db_insert_bill never inserts a second row for a pair that is stored or
\* that another concurrent task is inserting.
C26_OneRowPerNameAndSentDate ==
    (fetch # <<>> /\ fetch.pc \in {"returned", "raised"}) =>
        \A j, k \in 1..Len(fetch.bills) :
            (fetch.bills[j].name = fetch.bills[k].name
                /\ fetch.bills[j].sent_date = fetch.bills[k].sent_date) => j = k

---------------------------------------------------------------------------
(* jobs/fetch_bills_job.py: retry                                          *)
(*                                                                         *)
(* rt.fn gives what the wrapped function does at each of its calls: it     *)
(* returns a value, raises an exception of the configured types, or raises *)
(* another one.  rt.log lists the calls of fn and the sleeps, in order.    *)

\* line 20: the default backoff, in hundredths of a second
backoff == <<Float(50), Float(100), Float(200)>>

\* float('inf')
Inf == [t |-> "inf"]

\* a loop over the backoff alone
Delays_NoSentinel == backoff

\* line 24: backoff + (float('inf'),)
Delays == backoff \o <<Inf>>

\* what a call of fn may do
FnOutcomes(n) ==
    { [kind |-> "returns", v |-> Str(<<"value", n>>)],
      [kind |-> "raises", v |-> Str(<<"Exception", n>>)],
      [kind |-> "raises other", v |-> Str(<<"CancelledError", n>>)] }

InitRetry ==
    /\ rt \in { [fn |-> f, i |-> 1, pc |-> "try", last |-> None, log |-> <<>>, out |-> None] :
                   f \in { <<o1, o2, o3, o4, o5>> :
                              o1 \in FnOutcomes(1), o2 \in FnOutcomes(2),
                              o3 \in FnOutcomes(3), o4 \in FnOutcomes(4),
                              o5 \in FnOutcomes(5) } }
    /\ dueamt = <<>> /\ tm = <<>> /\ fetch = <<>> /\ tracker = <<>> /\ api = <<>>
    /\ ExtractIdle
    /\ MoneyIdle
    /\ NoCalls

\* the number of calls of fn made so far
CallsMade == Cardinality({k \in 1..Len(rt.log) : rt.log[k].e = "call"})

\* lines 25-26: fn is called and returns
AttemptReturns ==
    /\ rt.pc = "try"
    /\ LET r == rt.fn[CallsMade + 1]
       IN  /\ r.kind = "returns"
           /\ rt' = [rt EXCEPT !.log = Append(@, [e |-> "call", n |-> CallsMade + 1]),
                               !.pc = "returned",
                               !.out = r.v]
    /\ UNCHANGED <<parserVars, dueamt, tm, fetch, tracker, api>>

\* lines 25-32: fn is called and raises one of exceptions; the wrapper
\* re-raises at the delay inf and sleeps otherwise
AttemptRaises ==
    /\ rt.pc = "try"
    /\ LET r == rt.fn[CallsMade + 1]
       IN  /\ r.kind = "raises"
           /\ rt' = [rt EXCEPT !.log = Append(@, [e |-> "call", n |-> CallsMade + 1]),
                               !.last = r.v,
                               !.pc = IF Delays[rt.i] = Inf THEN "raised" ELSE "sleep",
                               !.out = IF Delays[rt.i] = Inf THEN Raise(r.v) ELSE @]
    /\ UNCHANGED <<parserVars, dueamt, tm, fetch, tracker, api>>

\* lines 25-27: fn is called and raises an exception that the except
\* clause does not name
AttemptRaisesOther ==
    /\ rt.pc = "try"
    /\ LET r == rt.fn[CallsMade + 1]
       IN  /\ r.kind = "raises other"
           /\ rt' = [rt EXCEPT !.log = Append(@, [e |-> "call", n |-> CallsMade + 1]),
                               !.pc = "raised",
                               !.out = Raise(r.v)]
    /\ UNCHANGED <<parserVars, dueamt, tm, fetch, tracker, api>>

\* line 32, and line 33 when the loop has no delay left
SleepReturns ==
    /\ rt.pc = "sleep"
    /\ rt' = [rt EXCEPT !.log = Append(@, [e |-> "sleep", n |-> Delays[rt.i].cents]),
                        !.i = @ + 1,
                        !.pc = IF rt.i + 1 > Len(Delays) THEN "raised" ELSE "try",
                        !.out = IF rt.i + 1 > Len(Delays) THEN Raise(rt.last) ELSE @]
    /\ UNCHANGED <<parserVars, dueamt, tm, fetch, tracker, api>>

NextRetry == AttemptReturns \/ AttemptRaises \/ AttemptRaisesOther \/ SleepReturns

SpecRetry == InitRetry /\ [][NextRetry]_vars

---------------------------------------------------------------------------
(* Properties of retry, under SpecRetry *)

RetryEnded == rt # <<>> /\ rt.pc \in {"returned", "raised"}

\* the log of a run of k calls with the default backoff: the calls, with the
\* sleeps of 0.5, 1.0 and 2.0 seconds between them, the last call at its end
RECURSIVE ExpectedLog(_)
ExpectedLog(k) ==
    IF k = 1 THEN <<[e |-> "call", n |-> 1]>>
    ELSE ExpectedLog(k - 1)
            \o <<[e |-> "sleep", n |-> <<50, 100, 200>>[k - 1]], [e |-> "call", n |-> k]>>

\* C27: with the default backoff the function is attempted at most 4 times;
\* the wrapper returns the result of the first attempt that succeeds and
\* makes no attempt after it; when all 4 attempts raise it re-raises the
\* exception of the fourth and does not sleep after it; an exception outside
\* the configured types is propagated at once, without retry.
C27_AtMostFourAttempts ==
    rt # <<>> =>
        /\ CallsMade <= 4
        /\ RetryEnded =>
             LET k == CallsMade
                 first == SetMin({n \in 1..4 : rt.fn[n].kind # "raises"} \cup {4})
             IN  /\ k = first
                 /\ rt.log = ExpectedLog(k)
                 /\ rt.fn[k].kind = "returns" => rt.pc = "returned" /\ rt.out = rt.fn[k].v
                 /\ rt.fn[k].kind # "returns" => rt.pc = "raised" /\ rt.out = Raise(rt.fn[k].v)

\* all four attempts have raised, and the fourth exception was re-raised
C27_Witness ==
    /\ RetryEnded
    /\ CallsMade = 4
    /\ \A n \in 1..4 : rt.fn[n].kind = "raises"
    /\ rt.out = Raise(rt.fn[4].v)
    /\ rt.log[Len(rt.log)].e = "call"

\* the third attempt returned, after two that raised
C27_WitnessSuccess ==
    /\ RetryEnded
    /\ rt.pc = "returned"
    /\ CallsMade = 3

---------------------------------------------------------------------------
(* services/progress.py: ProgressTracker                                   *)
(*                                                                         *)
(* tracker.tasks is the dict _tasks (None: no entry), tracker.now the      *)
(* clock, which every call reads, tracker.last the method called last and  *)
(* its task_id.  Each method holds the lock from its     *)
(* first line to its last and awaits nothing in between.  TaskProgress     *)
(* validates its fields when it is constructed, not when one is assigned.  *)

MaxTrackerCalls == 4

TrackedIds == {"t1", "t2"}

NaN == [t |-> "nan"]

\* the comparison a > b of two Python floats: False when either is nan
FloatGreater(a, b) == a.t = "float" /\ b.t = "float" /\ a.cents > b.cents

\* max(a, b) and min(a, b) of Python: the first argument, unless the second
\* is greater (smaller)
PyMax(a, b) == IF FloatGreater(b, a) THEN b ELSE a
PyMin(a, b) == IF FloatGreater(a, b) THEN b ELSE a

\* line 47
Clamp(progress) == PyMin(PyMax(progress, Float(0)), Float(10000))

\* the values of progress that callers pass
ProgressInputs == {Float(0 - 5000), Float(0), Float(5000), Float(10000), Float(15000), NaN}

InitProgress ==
    /\ tracker = [tasks |-> [id \in TrackedIds |-> None], now |-> 0,
                  last |-> [op |-> "none", task_id |-> "none"]]
    /\ dueamt = <<>> /\ tm = <<>> /\ fetch = <<>> /\ rt = <<>> /\ api = <<>>
    /\ ExtractIdle
    /\ MoneyIdle
    /\ NoCalls

\* lines 32-40
start(task_id, message) ==
    /\ tracker.now < MaxTrackerCalls
    /\ tracker' = [tracker EXCEPT
           !.now = @ + 1,
           !.last = [op |-> "start", task_id |-> task_id],
           !.tasks[task_id] =
               [task_id |-> task_id,
                status |-> "running",
                progress |-> Float(0),
                result |-> None,
                error |-> None,
                message |-> IF message # None THEN message ELSE Str("Task started"),
                started_at |-> tracker.now,
                updated_at |-> tracker.now]]
    /\ UNCHANGED <<parserVars, dueamt, tm, fetch, rt, api>>

\* lines 42-50
update_progress(task_id, progress, message) ==
    /\ tracker.now < MaxTrackerCalls
    /\ IF tracker.tasks[task_id] = None
       THEN tracker' = [tracker EXCEPT !.now = @ + 1,
                                       !.last = [op |-> "update_progress", task_id |-> task_id]]
       ELSE tracker' = [tracker EXCEPT
                !.now = @ + 1,
                !.last = [op |-> "update_progress", task_id |-> task_id],
                !.tasks[task_id].progress = Clamp(progress),
                !.tasks[task_id].updated_at = tracker.now,
                !.tasks[task_id].message = IF message # None THEN message ELSE @]
    /\ UNCHANGED <<parserVars, dueamt, tm, fetch, rt, api>>

\* lines 52-59
finish(task_id, res) ==
    /\ tracker.now < MaxTrackerCalls
    /\ IF tracker.tasks[task_id] = None
       THEN tracker' = [tracker EXCEPT !.now = @ + 1,
                                       !.last = [op |-> "finish", task_id |-> task_id]]
       ELSE tracker' = [tracker EXCEPT
                !.now = @ + 1,
                !.last = [op |-> "finish", task_id |-> task_id],
                !.tasks[task_id].status = "done",
                !.tasks[task_id].progress = Float(10000),
                !.tasks[task_id].result = res,
                !.tasks[task_id].updated_at = tracker.now]
    /\ UNCHANGED <<parserVars, dueamt, tm, fetch, rt, api>>

\* lines 61-67
fail(task_id, error) ==
    /\ tracker.now < MaxTrackerCalls
    /\ IF tracker.tasks[task_id] = None
       THEN tracker' = [tracker EXCEPT !.now = @ + 1,
                                       !.last = [op |-> "fail", task_id |-> task_id]]
       ELSE tracker' = [tracker EXCEPT
                !.now = @ + 1,
                !.last = [op |-> "fail", task_id |-> task_id],
                !.tasks[task_id].status = "error",
                !.tasks[task_id].error = error,
                !.tasks[task_id].updated_at = tracker.now]
    /\ UNCHANGED <<parserVars, dueamt, tm, fetch, rt, api>>

NextProgress ==
    \/ \E id \in TrackedIds, message \in {None, Str("message")} : start(id, message)
    \/ \E id \in TrackedIds, progress \in ProgressInputs, message \in {None, Str("message")} :
          update_progress(id, progress, message)
    \/ \E id \in TrackedIds, res \in {None, Str("result")} : finish(id, res)
    \/ \E id \in TrackedIds : fail(id, Str("error"))

SpecProgress == InitProgress /\ [][NextProgress]_vars

---------------------------------------------------------------------------
(* Properties of ProgressTracker, under SpecProgress *)

Tracked == { id \in TrackedIds : tracker.tasks[id] # None }

ProgressWithinRange(task) ==
    /\ task.progress.t = "float"
    /\ task.progress.cents >= 0
    /\ task.progress.cents <= 10000

\* C28: in every reachable state each tracked task has progress within
\* [0, 100], and a task whose status is done has progress 100;
\* update_progress, finish and fail on a task_id that was never started
\* leave the tracker unchanged.
C28_ProgressInvariants ==
    /\ [](tracker # <<>> =>
            \A id \in Tracked :
                /\ ProgressWithinRange(tracker.tasks[id])
                /\ tracker.tasks[id].status = "done" =>
                      tracker.tasks[id].progress = Float(10000))
    /\ [][(/\ tracker'.last.op \in {"update_progress", "finish", "fail"}
            /\ tracker.tasks[tracker'.last.task_id] = None)
               => tracker'.tasks = tracker.tasks]_vars

---------------------------------------------------------------------------
(* routers/bills.py: fetch_bills, get_bills, pay_bill, with db_all,        *)
(* db_mark_paid and db_insert_bill of db/database.py                       *)
(*                                                                         *)
(* api.bills is the table bills, api.now the clock that utcnow() reads,    *)
(* api.out the last call: its name, its argument, the exception that the   *)
(* operation behind it raised (None: it completed) and its outcome.  A     *)
(* call that raises leaves the table as it was.                            *)

MaxApiCalls == 4

BillIds == 1..3

\* database.py lines 153-157: UPDATE bills SET status='paid', paid_at=?
\* WHERE id=? AND status!='paid', without the test of the status
db_mark_paid_NoStatusTest(bills, bill_id, utcnow) ==
    [k \in 1..Len(bills) |->
        IF bills[k].id = bill_id
        THEN [bills[k] EXCEPT !.status = Str("paid"), !.paid_at = PyInt(utcnow)]
        ELSE bills[k]]

\* database.py lines 153-157; status != 'paid' is not true of a NULL status
db_mark_paid(bills, bill_id, utcnow) ==
    [k \in 1..Len(bills) |->
        IF bills[k].id = bill_id /\ bills[k].status # None /\ bills[k].status # Str("paid")
        THEN [bills[k] EXCEPT !.status = Str("paid"), !.paid_at = PyInt(utcnow)]
        ELSE bills[k]]

\* database.py lines 141-145: ORDER BY status ASC; rows of the same status
\* in the order of their ids
db_all(bills) ==
    SelectSeq(bills, LAMBDA r : r.status = None)
        \o SelectSeq(bills, LAMBDA r : r.status = Str("paid"))
        \o SelectSeq(bills, LAMBDA r : r.status = Str("unpaid"))

HTTPException(status_code, detail) ==
    [t |-> "HTTPException", status_code |-> status_code, detail |-> detail]

\* what a call gives its caller
Returns(response) == [kind |-> "returned", response |-> response]
Raises(exception) == [kind |-> "raised", exception |-> exception]

\* try / except Exception / finally of lines 28-41, 45-58 and 62-69: the
\* except clause binds the failure response and raises HTTPException(500,
\* str(e)); the finally clause then executes 'return response', and a
\* return in a finally clause discards the exception that is being raised
TryExceptFinally(raised, success, failure) ==
    LET response == IF raised = None THEN success ELSE failure
        pending == IF raised = None THEN None ELSE HTTPException(500, raised)
    IN  Returns(response)

\* the exceptions that the operations raise, by their text
ErrorTexts == {Str("database is locked"), Str("token expired")}

InitApi ==
    /\ api = [bills |-> <<>>, now |-> 0,
              out |-> [call |-> "none", arg |-> None, raised |-> None, outcome |-> None]]
    /\ dueamt = <<>> /\ tm = <<>> /\ fetch = <<>> /\ rt = <<>> /\ tracker = <<>>
    /\ ExtractIdle
    /\ MoneyIdle
    /\ NoCalls

\* lines 26-41; run_fetch_all raises, or completes after it has inserted
\* the bill it found, if it found one that is not stored
fetch_bills(found, raised) ==
    /\ api.now < MaxApiCalls
    /\ LET item == [name |-> SourceName, sent_date |-> found, status |-> Str("unpaid")]
           inserts == raised = None /\ found # "none" /\ ~bill_exists(api.bills, item)
       IN  api' = [api EXCEPT
               !.now = @ + 1,
               !.bills = IF inserts THEN db_insert_bill(@, item, api.now) ELSE @,
               !.out = [call |-> "fetch_bills", arg |-> None, raised |-> raised,
                        outcome |-> TryExceptFinally(raised,
                            [status |-> Str("Success"),
                             message |-> Str("Successfully fetched bills!")],
                            [status |-> Str("Failed"), message |-> raised])]]
    /\ UNCHANGED <<parserVars, dueamt, tm, fetch, rt, tracker>>

\* lines 43-58
get_bills(raised) ==
    /\ api.now < MaxApiCalls
    /\ api' = [api EXCEPT
           !.now = @ + 1,
           !.out = [call |-> "get_bills", arg |-> None, raised |-> raised,
                    outcome |-> TryExceptFinally(raised,
                        [status |-> Str("Success"), bills |-> db_all(api.bills)],
                        [status |-> Str("Failed"),
                         message |-> Str("Failed to retrieve bills.")])]]
    /\ UNCHANGED <<parserVars, dueamt, tm, fetch, rt, tracker>>

\* lines 60-69
pay_bill(bill_id, raised) ==
    /\ api.now < MaxApiCalls
    /\ api' = [api EXCEPT
           !.now = @ + 1,
           !.bills = IF raised = None THEN db_mark_paid(@, bill_id, api.now) ELSE @,
           !.out = [call |-> "pay_bill", arg |-> PyInt(bill_id), raised |-> raised,
                    outcome |-> TryExceptFinally(raised,
                        [bill_id |-> bill_id, status |-> Str("paid")],
                        [bill_id |-> bill_id, status |-> Str("failed")])]]
    /\ UNCHANGED <<parserVars, dueamt, tm, fetch, rt, tracker>>

\* database.py lines 119-139, called with an item of either status
InsertBillCall(sent_date, status) ==
    /\ api.now < MaxApiCalls
    /\ api' = [api EXCEPT
           !.now = @ + 1,
           !.bills = db_insert_bill(@, [name |-> SourceName, sent_date |-> sent_date,
                                        status |-> status], api.now),
           !.out = [call |-> "db_insert_bill", arg |-> None, raised |-> None,
                    outcome |-> Returns(None)]]
    /\ UNCHANGED <<parserVars, dueamt, tm, fetch, rt, tracker>>

NextApi ==
    \/ \E found \in SentDates \cup {"none"}, raised \in ErrorTexts \cup {None} :
          fetch_bills(found, raised)
    \/ \E raised \in ErrorTexts \cup {None} : get_bills(raised)
    \/ \E bill_id \in BillIds, raised \in ErrorTexts \cup {None} : pay_bill(bill_id, raised)
    \/ \E sent_date \in SentDates, status \in {Str("unpaid"), Str("paid")} :
          InsertBillCall(sent_date, status)

SpecApi == InitApi /\ [][NextApi]_vars

---------------------------------------------------------------------------
(* Properties of the bills router and of the table bills, under SpecApi *)

Endpoints == {"fetch_bills", "get_bills", "pay_bill"}

\* C29: when the operation behind an endpoint raises, the endpoint's
\* outcome is the HTTP 500 error carrying the exception text, never a normal
\* response; a normal response is produced only when the operation
\* completed without exception.
C29_ExceptionGivesHttp500 ==
    (api # <<>> /\ api.out.call \in Endpoints) =>
        /\ api.out.raised # None =>
              api.out.outcome = Raises(HTTPException(500, api.out.raised))
        /\ api.out.outcome.kind = "returned" => api.out.raised = None

\* a step in which db_mark_paid(k) is called and completes
MarkPaidCompletes(k) ==
    /\ api'.now = api.now + 1
    /\ api'.out.call = "pay_bill"
    /\ api'.out.arg = PyInt(k)
    /\ api'.out.raised = None

\* C30: the first call of db_mark_paid for an unpaid bill sets its status to
\* paid and records paid_at; every later call for the bill leaves status and
\* paid_at unchanged; a call never changes another bill's row; no operation
\* of the database module turns a paid bill back to unpaid.
C30_PaidIsAbsorbing ==
    [][\A k \in 1..Len(api.bills) :
          /\ Len(api'.bills) >= Len(api.bills)
          /\ api'.bills[k].id = api.bills[k].id
          /\ (MarkPaidCompletes(k) /\ api.bills[k].status = Str("unpaid")) =>
                api'.bills[k] = [api.bills[k] EXCEPT !.status = Str("paid"),
                                                     !.paid_at = PyInt(api.now)]
          /\ api.bills[k].status = Str("paid") => api'.bills[k] = api.bills[k]
          /\ ~MarkPaidCompletes(k) => api'.bills[k] = api.bills[k]
      ]_vars

\* a bill that was paid, and then paid once more at a later time, beside
\* a bill that is unpaid
C30_Witness ==
    /\ api # <<>>
    /\ api.out.call = "pay_bill" /\ api.out.raised = None
    /\ \E k, j \in 1..Len(api.bills) :
          /\ api.out.arg = PyInt(k)
          /\ api.bills[k].status = Str("paid")
          /\ api.bills[k].paid_at # None
          /\ api.bills[k].paid_at.v + 1 < api.now
          /\ api.bills[j].status = Str("unpaid")

=============================================================================
